---------------------------- MODULE Spec2Model ----------------------------
(***************************************************************************)
(* Model of the femoral-access imaging workflow:                           *)
(*   src/epic_extractor/femoral_batch.py  (per-patient workflow functions) *)
(*   src/epic_extractor/femoral_loop.py   (interactive loop + prefetch)    *)
(*                                                                         *)
(* Text (input lines, study descriptions) is modelled as sequences of     *)
(* one-character strings so that strip/split/int parsing is computed the  *)
(* way the Python code computes it.                                        *)
(***************************************************************************)
EXTENDS Integers, Sequences, FiniteSets, Bags, TLC

(***************************************************************************)
(* Bounds of the model                                                     *)
(***************************************************************************)
\* number of records on the registry dashboard
NumRecords == 3
\* number of prefetch worker threads that can exist at the same time
MaxWorkers == 2

(***************************************************************************)
(* Text helpers (Python str methods)                                       *)
(***************************************************************************)
Digits == {"0", "1", "2", "3", "4", "5", "6", "7", "8", "9"}

IsSpace(c) == c = " "

DigitVal(c) ==
    CASE c = "0" -> 0 [] c = "1" -> 1 [] c = "2" -> 2 [] c = "3" -> 3
      [] c = "4" -> 4 [] c = "5" -> 5 [] c = "6" -> 6 [] c = "7" -> 7
      [] c = "8" -> 8 [] c = "9" -> 9 [] OTHER -> 0

\* str.lower() / toUpperCase() on the letters the model uses
LowerChar(c) ==
    CASE c = "Q" -> "q" [] c = "U" -> "u" [] c = "I" -> "i" [] c = "T" -> "t"
      [] c = "R" -> "r" [] c = "E" -> "e" [] c = "D" -> "d" [] c = "O" -> "o"
      [] OTHER -> c

Lower(s) == [i \in 1..Len(s) |-> LowerChar(s[i])]

RECURSIVE LStrip(_)
LStrip(s) == IF s # <<>> /\ IsSpace(Head(s)) THEN LStrip(Tail(s)) ELSE s

RECURSIVE RStrip(_)
RStrip(s) ==
    IF s # <<>> /\ IsSpace(s[Len(s)]) THEN RStrip(SubSeq(s, 1, Len(s) - 1)) ELSE s

\* str.strip()
Strip(s) == RStrip(LStrip(s))

\* str.split(sep) for a one-character separator: empty pieces are kept
RECURSIVE SplitOnAcc(_, _, _)
SplitOnAcc(s, sep, cur) ==
    IF s = <<>> THEN <<cur>>
    ELSE IF Head(s) = sep THEN <<cur>> \o SplitOnAcc(Tail(s), sep, <<>>)
    ELSE SplitOnAcc(Tail(s), sep, Append(cur, Head(s)))

SplitOn(s, sep) == SplitOnAcc(s, sep, <<>>)

\* str.split() with no argument: runs of whitespace separate, no empty piece
RECURSIVE SplitWsAcc(_, _)
SplitWsAcc(s, cur) ==
    IF s = <<>> THEN (IF cur = <<>> THEN <<>> ELSE <<cur>>)
    ELSE IF IsSpace(Head(s))
         THEN (IF cur = <<>> THEN <<>> ELSE <<cur>>) \o SplitWsAcc(Tail(s), <<>>)
         ELSE SplitWsAcc(Tail(s), Append(cur, Head(s)))

SplitWs(s) == SplitWsAcc(s, <<>>)

\* " ".join(parts)
RECURSIVE JoinSp(_)
JoinSp(parts) ==
    IF parts = <<>> THEN <<>>
    ELSE IF Len(parts) = 1 THEN parts[1]
    ELSE parts[1] \o <<" ">> \o JoinSp(Tail(parts))

\* str.replace(c, "")
RECURSIVE RemoveChar(_, _)
RemoveChar(s, c) ==
    IF s = <<>> THEN <<>>
    ELSE IF Head(s) = c THEN RemoveChar(Tail(s), c)
    ELSE <<Head(s)>> \o RemoveChar(Tail(s), c)

\* str.isdigit(): non-empty and every character a digit
IsDigitStr(s) == s # <<>> /\ \A i \in 1..Len(s) : s[i] \in Digits

RECURSIVE DigitsVal(_)
DigitsVal(s) ==
    IF s = <<>> THEN 0 ELSE 10 * DigitsVal(SubSeq(s, 1, Len(s) - 1)) + DigitVal(s[Len(s)])

\* int(token): optional sign followed by digits, else ValueError (ok = FALSE)
ParseInt(tok) ==
    IF tok # <<>> /\ Head(tok) \in {"-", "+"}
    THEN IF IsDigitStr(Tail(tok))
         THEN [ok |-> TRUE,
               val |-> IF Head(tok) = "-" THEN 0 - DigitsVal(Tail(tok))
                       ELSE DigitsVal(Tail(tok))]
         ELSE [ok |-> FALSE, val |-> 0]
    ELSE IF IsDigitStr(tok) THEN [ok |-> TRUE, val |-> DigitsVal(tok)]
    ELSE [ok |-> FALSE, val |-> 0]

StartsWith(s, p) == Len(s) >= Len(p) /\ SubSeq(s, 1, Len(p)) = p

(***************************************************************************)
(* femoral_loop._parse_input: line -> (shorthand, comments)                *)
(***************************************************************************)
\* the mutant: the commas of the last token are not removed
_parse_input_CommasKept(line) ==
    LET parts == SplitWs(Strip(line))
    IN  IF parts = <<>> THEN [shorthand |-> <<>>, comments |-> <<>>]
        ELSE IF Len(parts) > 1 /\ ~IsDigitStr(parts[Len(parts)])
             THEN [shorthand |-> JoinSp(SubSeq(parts, 1, Len(parts) - 1)),
                   comments |-> parts[Len(parts)]]
             ELSE [shorthand |-> Strip(line), comments |-> <<>>]

_parse_input(line) ==
    LET parts == SplitWs(Strip(line))
    IN  IF parts = <<>> THEN [shorthand |-> <<>>, comments |-> <<>>]
        ELSE LET last == parts[Len(parts)]
             IN  IF Len(parts) > 1 /\ ~IsDigitStr(RemoveChar(last, ","))
                 THEN [shorthand |-> JoinSp(SubSeq(parts, 1, Len(parts) - 1)),
                       comments |-> last]
                 ELSE [shorthand |-> Strip(line), comments |-> <<>>]

(***************************************************************************)
(* femoral_batch.process_selection, lines 981-1027: the shorthand parser.  *)
(* entries maps a type (0..3) to <<series, image>>; a type that is not     *)
(* present maps to NoEntry.  For type 0 the pair is <<0, 0>> (None, None). *)
(***************************************************************************)
NoEntry == <<>>

EmptyEntries == [t \in 0..3 |-> NoEntry]

\* the mutant: series and image 0 pass
ParseSegment_ZeroLocator(part) ==
    LET tokens == SplitWs(Strip(part))
        bad == [ok |-> FALSE, t |-> 0, series |-> 0, img |-> 0]
    IN  IF Len(tokens) # 3 THEN bad
        ELSE LET t == ParseInt(tokens[1])
                 series == ParseInt(tokens[2])
                 img == ParseInt(tokens[3])
             IN  IF ~t.ok \/ t.val \notin {1, 2, 3} THEN bad
                 ELSE IF ~series.ok \/ ~img.ok THEN bad
                 ELSE IF series.val < 0 \/ img.val < 0 THEN bad
                 ELSE [ok |-> TRUE, t |-> t.val, series |-> series.val, img |-> img.val]

\* one comma-separated part: [ok, t, series, img]
ParseSegment(part) ==
    LET segment == Strip(part)
        tokens == SplitWs(segment)
        bad == [ok |-> FALSE, t |-> 0, series |-> 0, img |-> 0]
    IN  IF segment = <<>> THEN bad
        ELSE IF Len(tokens) # 3 THEN bad
        ELSE LET t == ParseInt(tokens[1])
                 series == ParseInt(tokens[2])
                 img == ParseInt(tokens[3])
             IN  IF ~t.ok THEN bad
                 ELSE IF t.val \notin {1, 2, 3} THEN bad
                 ELSE IF ~series.ok \/ ~img.ok THEN bad
                 ELSE IF series.val < 1 \/ img.val < 1 THEN bad
                 ELSE [ok |-> TRUE, t |-> t.val, series |-> series.val, img |-> img.val]

\* the mutant: the first segment of a type is kept
RECURSIVE ParseParts_FirstWins(_, _)
ParseParts_FirstWins(parts, entries) ==
    IF parts = <<>> THEN [ok |-> TRUE, entries |-> entries]
    ELSE LET seg == ParseSegment(Head(parts))
         IN  IF ~seg.ok THEN [ok |-> FALSE, entries |-> EmptyEntries]
             ELSE ParseParts_FirstWins(Tail(parts),
                      IF entries[seg.t] # NoEntry THEN entries
                      ELSE [entries EXCEPT ![seg.t] = <<seg.series, seg.img>>])

RECURSIVE ParseParts(_, _)
ParseParts(parts, entries) ==
    IF parts = <<>> THEN [ok |-> TRUE, entries |-> entries]
    ELSE LET seg == ParseSegment(Head(parts))
         IN  IF ~seg.ok THEN [ok |-> FALSE, entries |-> EmptyEntries]
             ELSE ParseParts(Tail(parts),
                             [entries EXCEPT ![seg.t] = <<seg.series, seg.img>>])

\* the mutant: a "0" segment adds type 0 wherever it stands
ParseShorthand_ZeroAnywhere(shorthand0) ==
    LET parts == SplitOn(Strip(shorthand0), ",")
        rest == SelectSeq(parts, LAMBDA q : Strip(q) # <<"0">>)
        p == ParseParts(rest, EmptyEntries)
    IN  IF Strip(shorthand0) = <<>> THEN [ok |-> FALSE, entries |-> EmptyEntries]
        ELSE IF ~p.ok \/ Len(rest) = Len(parts) THEN p
        ELSE [ok |-> TRUE, entries |-> [p.entries EXCEPT ![0] = <<0, 0>>]]

\* [ok, entries]: ok = FALSE is the invalid_input return
ParseShorthand(shorthand0) ==
    LET shorthand == Strip(shorthand0)
    IN  IF shorthand = <<>> THEN [ok |-> FALSE, entries |-> EmptyEntries]
        ELSE IF shorthand = <<"0">>
             THEN [ok |-> TRUE, entries |-> [EmptyEntries EXCEPT ![0] = <<0, 0>>]]
        ELSE LET p == ParseParts(SplitOn(shorthand, ","), EmptyEntries)
                 n == Cardinality({t \in 0..3 : p.entries[t] # NoEntry})
             IN  IF ~p.ok THEN p
                 ELSE IF p.entries[0] # NoEntry /\ n > 1
                      THEN [ok |-> FALSE, entries |-> EmptyEntries]
                 ELSE p

\* set(entries.keys()) - {0}
SelectionOf(entries) == {t \in 1..3 : entries[t] # NoEntry}

(***************************************************************************)
(* femoral_batch._convert_date_for_nilread: MM-DD-YYYY -> "mon dd, yyyy"   *)
(***************************************************************************)
MonthAbbr(m) ==
    CASE m = 1 -> <<"j", "a", "n">> [] m = 2 -> <<"f", "e", "b">>
      [] m = 3 -> <<"m", "a", "r">> [] m = 4 -> <<"a", "p", "r">>
      [] m = 5 -> <<"m", "a", "y">> [] m = 6 -> <<"j", "u", "n">>
      [] m = 7 -> <<"j", "u", "l">> [] m = 8 -> <<"a", "u", "g">>
      [] m = 9 -> <<"s", "e", "p">> [] m = 10 -> <<"o", "c", "t">>
      [] m = 11 -> <<"n", "o", "v">> [] OTHER -> <<"d", "e", "c">>

IsLeap(y) == (y % 4 = 0 /\ y % 100 # 0) \/ y % 400 = 0

DaysInMonth(y, m) ==
    IF m = 2 THEN (IF IsLeap(y) THEN 29 ELSE 28)
    ELSE IF m \in {4, 6, 9, 11} THEN 30 ELSE 31

DigitChar(d) ==
    CASE d = 0 -> "0" [] d = 1 -> "1" [] d = 2 -> "2" [] d = 3 -> "3"
      [] d = 4 -> "4" [] d = 5 -> "5" [] d = 6 -> "6" [] d = 7 -> "7"
      [] d = 8 -> "8" [] OTHER -> "9"

RECURSIVE NatStr(_)
NatStr(n) == IF n < 10 THEN <<DigitChar(n)>> ELSE NatStr(n \div 10) \o <<DigitChar(n % 10)>>

\* zero-padded to at least w characters (strftime %d, %Y)
RECURSIVE PadZero(_, _)
PadZero(s, w) == IF Len(s) >= w THEN s ELSE PadZero(<<"0">> \o s, w)

\* [ok, val]: ok = FALSE stands for the ValueError / IndexError of the code
_convert_date_for_nilread(redcap_date) ==
    LET parts == SplitOn(redcap_date, "-")
        bad == [ok |-> FALSE, val |-> <<>>]
    IN  IF Len(parts) < 3 THEN bad
        ELSE LET y == ParseInt(Strip(parts[3]))
                 m == ParseInt(Strip(parts[1]))
                 d == ParseInt(Strip(parts[2]))
             IN  IF ~y.ok \/ ~m.ok \/ ~d.ok THEN bad
                 ELSE IF y.val < 1 \/ y.val > 9999 THEN bad
                 ELSE IF m.val < 1 \/ m.val > 12 THEN bad
                 ELSE IF d.val < 1 \/ d.val > DaysInMonth(y.val, m.val) THEN bad
                 ELSE [ok |-> TRUE,
                       val |-> MonthAbbr(m.val) \o <<" ">> \o PadZero(NatStr(d.val), 2)
                               \o <<",", " ">> \o PadZero(NatStr(y.val), 4)]

(***************************************************************************)
(* The registry: record identifiers and the form fields of each record.    *)
(* A record identifier is opaque to the code; the model writes the         *)
(* identifier "10k" as the number 100 + k and Python's None as NoId.       *)
(***************************************************************************)
NoId == 0

RecId(i) == 100 + i

\* the record status dashboard, in traversal order
Dashboard == [i \in 1..NumRecords |-> RecId(i)]

RecIds == {RecId(i) : i \in 1..NumRecords}

\* an identifier the dashboard does not list
AbsentId == RecId(0)

FEMORAL_ACCESS_VALUES == {"1", "2", "3", "11", "12", "13"}

GoodDate == <<"0", "1", "-", "1", "5", "-", "2", "0", "2", "4">>

BadDate == <<"1", "3", "-", "0", "1", "-", "2", "0", "2", "4">>

\* a procedure date without a value
NoDate == <<>>

\* rows of an eligible record, of a record that is not eligible and of a
\* record whose fetch fails (no MRN, malformed date, no date), three variants each
FemoralRows ==
    << [mrn |-> "MRN00001", proc_date |-> GoodDate, access_site_1 |-> "2", access_site_2 |-> ""],
       [mrn |-> "MRN00002", proc_date |-> GoodDate, access_site_1 |-> "5", access_site_2 |-> "12"],
       [mrn |-> "MRN00003", proc_date |-> GoodDate, access_site_1 |-> "13", access_site_2 |-> "1"] >>

NonFemoralRows ==
    << [mrn |-> "MRN00004", proc_date |-> GoodDate, access_site_1 |-> "5", access_site_2 |-> ""],
       [mrn |-> "MRN00005", proc_date |-> GoodDate, access_site_1 |-> "", access_site_2 |-> ""],
       [mrn |-> "MRN00006", proc_date |-> GoodDate, access_site_1 |-> "4", access_site_2 |-> "21"] >>

ErrorRows ==
    << [mrn |-> "", proc_date |-> GoodDate, access_site_1 |-> "1", access_site_2 |-> ""],
       [mrn |-> "MRN00008", proc_date |-> BadDate, access_site_1 |-> "1", access_site_2 |-> ""],
       [mrn |-> "MRN00009", proc_date |-> NoDate, access_site_1 |-> "", access_site_2 |-> ""] >>

\* the field values the i-th record of the dashboard can hold in the model
RowsAt(i) ==
    {FemoralRows[(i % 3) + 1], NonFemoralRows[(i % 3) + 1], ErrorRows[(i % 3) + 1]}

RegistryRows == UNION {RowsAt(i) : i \in 1..3}

\* the registries of the model
Registries ==
    {f \in [RecIds -> RegistryRows] : \A i \in 1..NumRecords : f[RecId(i)] \in RowsAt(i)}

\* Python's None for the accession of a patient dict
NoneStr == "<None>"

NoPatient ==
    [record_id |-> NoId, error |-> "", mrn |-> "", proc_date_redcap |-> <<>>,
     proc_date_nilread |-> <<>>, accession |-> NoneStr, access_site_1 |-> "",
     access_site_2 |-> "", has_femoral |-> FALSE]

\* the mutant: any recorded access site counts
HasFemoral_AnySite(access_site_1, access_site_2) ==
    access_site_1 # "" \/ access_site_2 # ""

\* lines 166-167
HasFemoral(access_site_1, access_site_2) ==
    access_site_1 \in FEMORAL_ACCESS_VALUES \/ access_site_2 \in FEMORAL_ACCESS_VALUES

\* _fetch_patient_data, lines 148-178, applied to the fields the script read
_fetch_patient_data(record_id, rec) ==
    LET err(e) == [NoPatient EXCEPT !.record_id = record_id, !.error = e]
        conv == _convert_date_for_nilread(rec.proc_date)
    IN  IF rec.mrn = "" THEN err("MRN not found")
        ELSE IF rec.proc_date = NoDate THEN err("procedure date not found")
        ELSE IF ~conv.ok THEN err("invalid date format")
        ELSE [record_id |-> record_id, error |-> "", mrn |-> rec.mrn,
              proc_date_redcap |-> rec.proc_date, proc_date_nilread |-> conv.val,
              accession |-> NoneStr, access_site_1 |-> rec.access_site_1,
              access_site_2 |-> rec.access_site_2,
              has_femoral |-> HasFemoral(rec.access_site_1, rec.access_site_2)]

\* the fetch of every row of the model, computed once
FetchTable == [rec \in RegistryRows |-> _fetch_patient_data(NoId, rec)]

\* _fetch_patient_data(record_id) when the registry holds rec for the record
FetchRecord(record_id, rec) == [FetchTable[rec] EXCEPT !.record_id = record_id]

\* dict.get("has_femoral", True): an error dict carries no has_femoral key
GetHasFemoral(d) == IF d.error # "" THEN TRUE ELSE d.has_femoral

\* list.index(id) + 1 when id is listed, else 0 (lines 1259-1262, 1358-1365)
RECURSIVE IndexOf(_, _)
IndexOf(seq, x) ==
    IF seq = <<>> THEN 0
    ELSE IF Head(seq) = x THEN 1
    ELSE LET r == IndexOf(Tail(seq), x) IN IF r = 0 THEN 0 ELSE r + 1

\* the mutant: the index of last_record_id itself, the + 1 left out
StartIdx_SameRecord(all_records, last_record_id) ==
    IF last_record_id = NoId \/ IndexOf(all_records, last_record_id) = 0 THEN 0
    ELSE IndexOf(all_records, last_record_id) - 1

\* 0-based index at which traversal starts after last_record_id
StartIdx(all_records, last_record_id) ==
    IF last_record_id = NoId THEN 0 ELSE IndexOf(all_records, last_record_id)

(***************************************************************************)
(* The viewer: study rows and the study selector                           *)
(* (extract_accession, lines 403-501).                                     *)
(* A row is [cells, desc, mod, images, acc, toggle]: the number of its     *)
(* cells (12 or more when expanded), the description, modality, image      *)
(* count (parseInt(..) || 0) and accession cells, and whether it carries   *)
(* an expand toggle.                                                       *)
(***************************************************************************)
UpperChar(c) ==
    CASE c = "n" -> "N" [] c = "r" -> "R" [] c = "f" -> "F" [] c = "l" -> "L"
      [] c = "u" -> "U" [] c = "s" -> "S" [] c = "a" -> "A" [] OTHER -> c

Upper(s) == [i \in 1..Len(s) |-> UpperChar(s[i])]

PreferredPrefixes ==
    << <<"N", "R", " ", "F", "L">>,
       <<"H", "V", "C", " ", "N", "O", "N", "R", "E", "P", "O", "R", "T", "A", "B", "L", "E">>,
       <<"P", "V", " ", "T", "R", "A", "N", "S", "C", "A", "T", "H", "E", "T", "E", "R">>,
       <<"P", "V", " ", "A", "N", "G", "I", "O", "G", "R", "A", "P", "H", "Y">> >>

\* descUp.indexOf(prefix) === 0 for one of the prefixes
HasPreferredPrefix(desc) ==
    \E k \in 1..Len(PreferredPrefixes) : StartsWith(Upper(desc), PreferredPrefixes[k])

\* the prefix reported as "match" (the first one, in the order of the code)
PrefMatch(desc) ==
    PreferredPrefixes[CHOOSE k \in 1..Len(PreferredPrefixes) :
        /\ StartsWith(Upper(desc), PreferredPrefixes[k])
        /\ \A j \in 1..(k - 1) : ~StartsWith(Upper(desc), PreferredPrefixes[j])]

IsPreferredRow(row) == row.images > 1 /\ HasPreferredPrefix(row.desc)

DescPrefix(desc) == SubSeq(desc, 1, IF Len(desc) < 30 THEN Len(desc) ELSE 30)

NoPick ==
    [acc |-> "", images |-> 0, mod |-> "", desc |-> <<>>, match |-> <<>>, row |-> 0]

\* the mutant: the fallback row is replaced on equal image counts too
RECURSIVE PickLoop_LastWins(_, _, _, _)
PickLoop_LastWins(rows, i, pref, best) ==
    IF i > Len(rows) THEN [pref |-> pref, best |-> best]
    ELSE LET r == rows[i]
             pref2 == IF r.cells >= 12 /\ IsPreferredRow(r) /\ r.images > pref.images
                      THEN [acc |-> r.acc, images |-> r.images, mod |-> r.mod,
                            desc |-> DescPrefix(r.desc), match |-> PrefMatch(r.desc),
                            row |-> i]
                      ELSE pref
             best2 == IF r.cells >= 12 /\ r.images >= best.images
                      THEN [acc |-> r.acc, images |-> r.images, mod |-> r.mod,
                            desc |-> DescPrefix(r.desc), match |-> <<>>, row |-> i]
                      ELSE best
         IN  PickLoop_LastWins(rows, i + 1, pref2, best2)

\* the loop of _PICK_BEST_ROW_JS over rows i..Len(rows), lines 406-434
RECURSIVE PickLoop(_, _, _, _)
PickLoop(rows, i, pref, best) ==
    IF i > Len(rows) THEN [pref |-> pref, best |-> best]
    ELSE LET r == rows[i]
             pref2 == IF r.cells >= 12 /\ IsPreferredRow(r) /\ r.images > pref.images
                      THEN [acc |-> r.acc, images |-> r.images, mod |-> r.mod,
                            desc |-> DescPrefix(r.desc), match |-> PrefMatch(r.desc),
                            row |-> i]
                      ELSE pref
             best2 == IF r.cells >= 12 /\ r.images > best.images
                      THEN [acc |-> r.acc, images |-> r.images, mod |-> r.mod,
                            desc |-> DescPrefix(r.desc), match |-> <<>>, row |-> i]
                      ELSE best
         IN  PickLoop(rows, i + 1, pref2, best2)

MaxImagesMatch == <<"m", "a", "x", "_", "i", "m", "a", "g", "e", "s">>

\* _PICK_BEST_ROW_JS, lines 403-444: [found, pick]
PickBestRow(rows) ==
    LET r == PickLoop(rows, 1, NoPick, [NoPick EXCEPT !.images = -1])
    IN  IF r.pref.acc # "" THEN [found |-> TRUE, pick |-> r.pref]
        ELSE IF r.best.images >= 0
             THEN [found |-> TRUE, pick |-> [r.best EXCEPT !.match = MaxImagesMatch]]
        ELSE [found |-> FALSE, pick |-> NoPick]

\* what the viewer shows: the rows now, and the rows after an expand click
\* and the wait that follows it
ScreenOf(rows, after_expand) == [rows |-> rows, after_expand |-> after_expand]

\* extract_accession, lines 446-501, on a screen:
\* [error, pick, expanded] where expanded tells that the expand toggle was clicked
extract_accession_js(scr) ==
    LET rows == scr.rows
        hasExpanded == \E i \in 1..Len(rows) : rows[i].cells >= 12
        out(e, p, x) == [error |-> e, pick |-> p, expanded |-> x]
        first == PickBestRow(rows)
        retry == PickBestRow(scr.after_expand)
    IN  IF rows = <<>> THEN out("no rows found", NoPick, FALSE)
        ELSE IF ~hasExpanded
             THEN IF rows[1].toggle
                  THEN IF retry.found
                       THEN (IF retry.pick.acc = "" THEN out("accession empty", NoPick, TRUE)
                             ELSE out("", retry.pick, TRUE))
                       ELSE out("no expanded row after expand", NoPick, TRUE)
                  ELSE out("no expand toggle found", NoPick, FALSE)
        ELSE IF first.found
             THEN (IF first.pick.acc = "" THEN out("accession empty", NoPick, FALSE)
                   ELSE out("", first.pick, FALSE))
        ELSE out("no expanded rows", NoPick, FALSE)

(***************************************************************************)
(* The viewer as the main thread sees it: what each script can return.     *)
(***************************************************************************)
RowUS ==
    [cells |-> 12, desc |-> <<"U", "S", " ", "D", "o", "p", "p", "l", "e", "r">>,
     mod |-> "US", images |-> 5, acc |-> "ACC0001", toggle |-> FALSE]

RowFL ==
    [cells |-> 12, desc |-> <<"N", "R", " ", "F", "L", " ", "A", "n", "g", "i", "o">>,
     mod |-> "XA", images |-> 4, acc |-> "ACC0002", toggle |-> FALSE]

RowCollapsed ==
    [cells |-> 2, desc |-> <<>>, mod |-> "", images |-> 0, acc |-> "", toggle |-> TRUE]

\* the screens the viewer shows in the runs of the loop
LoopScreens ==
    { ScreenOf(<<RowUS, RowFL>>, <<>>),
      ScreenOf(<<>>, <<>>),
      ScreenOf(<<RowCollapsed>>, <<RowFL>>),
      ScreenOf(<<[RowCollapsed EXCEPT !.toggle = FALSE]>>, <<>>),
      ScreenOf(<<[RowFL EXCEPT !.acc = ""]>>, <<>>) }

\* no screen is being read by a call of extract_accession on its own
NoScreen == <<>>

\* what the two field-set scripts of _set_field_value_js return (lines 280-302)
SearchOutcomes ==
    { [mrn |-> "ok", date |-> "ok"], [mrn |-> "not_found", date |-> "ok"],
      [mrn |-> "ok", date |-> "no_date_input"] }

\* setup_nilread_search, lines 348-377: the returned error ("" for status set)
\* and the viewer operations performed
setup_nilread_search(so) ==
    IF so.mrn # "ok"
    THEN [error |-> "MRN field: " \o so.mrn, ops |-> <<"set_mrn">>]
    ELSE IF so.date # "ok"
         THEN [error |-> "date field: " \o so.date, ops |-> <<"set_mrn", "set_date">>]
    ELSE [error |-> "", ops |-> <<"set_mrn", "set_date">>]

\* what setup_nilread_search can return, and what extract_accession can find
SearchReturns == {setup_nilread_search(so) : so \in SearchOutcomes}

LoopAccResults == {extract_accession_js(scr) : scr \in LoopScreens}

NoResult ==
    [record_id |-> NoId, position |-> 0, error |-> "", prefetched |-> FALSE,
     acc_len |-> 0, images |-> 0, match |-> <<>>]

\* setup_nilread_search() ; sleep ; extract_accession() ; open_study()
\* (next_patient lines 1388-1402, next_patient_from_prefetch lines 1307-1323)
SearchAndOpen(patient, position, prefetched, sr, acc) ==
    LET ops == sr.ops \o <<"extract_accession">>
    IN  IF acc.error # ""
        THEN [search_error |-> sr.error, ops |-> ops, patient |-> patient,
              result |-> [NoResult EXCEPT !.record_id = patient.record_id,
                                          !.position = position,
                                          !.error = acc.error,
                                          !.prefetched = prefetched]]
        ELSE [search_error |-> sr.error, ops |-> ops \o <<"open_study">>,
              patient |-> [patient EXCEPT !.accession = acc.pick.acc],
              result |-> [NoResult EXCEPT !.record_id = patient.record_id,
                                          !.position = position,
                                          !.prefetched = prefetched,
                                          !.acc_len = Len(acc.pick.acc),
                                          !.images = acc.pick.images,
                                          !.match = acc.pick.match]]

(***************************************************************************)
(* Prefetch results (preload_next_patient, lines 1241-1279; _worker)       *)
(***************************************************************************)
NoPrefetch ==
    [status |-> "none", after_record_id |-> NoId, record_id |-> NoId,
     position |-> 0, patient_data |-> NoPatient]

PrefetchReady(after, idx, patient) ==
    [status |-> "ready", after_record_id |-> after, record_id |-> patient.record_id,
     position |-> idx + 1, patient_data |-> patient]

PrefetchNoMore(after) ==
    [NoPrefetch EXCEPT !.status = "no_more_records", !.after_record_id = after]

PrefetchError(after) ==
    [NoPrefetch EXCEPT !.status = "error", !.after_record_id = after]

\* the mutant: the staleness test on after_record_id left out
PrefetchUsable_NoAfterCheck(prefetch, last_record_id) ==
    /\ prefetch.status # "none"
    /\ prefetch.status = "ready"
    /\ prefetch.patient_data # NoPatient

\* the condition of next_patient_from_prefetch, lines 1284-1289
PrefetchUsable(prefetch, last_record_id) ==
    /\ prefetch.status # "none"
    /\ prefetch.status = "ready"
    /\ prefetch.after_record_id = last_record_id
    /\ prefetch.patient_data # NoPatient

(***************************************************************************)
(* The registry form save of process_selection (lines 1066-1191)           *)
(***************************************************************************)
\* what the registry answers to the save script: whether the script's return
\* value parses as JSON, the status of the form GET, whether the page holds a
\* CSRF token, the measurement fields that hold a value, the POST status
SaveResponses ==
    { [raw_ok |-> FALSE, get_status |-> 0, csrf |-> FALSE, measured |-> {}, post_status |-> 0],
      [raw_ok |-> TRUE, get_status |-> 500, csrf |-> FALSE, measured |-> {}, post_status |-> 0],
      [raw_ok |-> TRUE, get_status |-> 200, csrf |-> FALSE, measured |-> {}, post_status |-> 0] }
    \cup
    { [raw_ok |-> TRUE, get_status |-> 200, csrf |-> TRUE, measured |-> {}, post_status |-> st] :
        st \in {200, 302, 500} }
    \cup
    { [raw_ok |-> TRUE, get_status |-> 200, csrf |-> TRUE, measured |-> {1, 2, 3},
       post_status |-> 200] }

\* formComplete of the save script, lines 1081-1101
FormComplete(no_images, selection, measured) ==
    IF no_images THEN 2
    ELSE IF \A t \in selection : t \in measured THEN 2 ELSE 1

NoPost ==
    [rid |-> NoId, accession |-> "", needle |-> 0, angio |-> 0, other |-> 0,
     series_image |-> EmptyEntries, comment |-> <<>>, form_complete |-> 0,
     http_status |-> 0, no_images |-> FALSE, measured |-> {}]

NoSaveResult == [record_id |-> NoId, status |-> "", form_complete |-> 0]

\* the POST the save script submits (lines 1119-1150) for a patient, the
\* parsed entries and the comment, when the form read succeeded
SavePost(patient, entries, comments, resp) ==
    LET selection == SelectionOf(entries)
        no_images == entries[0] # NoEntry
    IN  [rid |-> patient.record_id,
         accession |-> IF patient.accession = NoneStr THEN "null" ELSE patient.accession,
         needle |-> IF 1 \in selection THEN 1 ELSE 0,
         angio |-> IF 2 \in selection THEN 1 ELSE 0,
         other |-> IF 3 \in selection THEN 1 ELSE 0,
         series_image |-> [t \in 0..3 |-> IF t \in selection THEN entries[t] ELSE NoEntry],
         comment |-> Strip(comments),
         form_complete |-> FormComplete(no_images, selection, resp.measured),
         http_status |-> resp.post_status,
         no_images |-> no_images,
         measured |-> resp.measured]

\* whether the save script gets as far as the POST (lines 1074, 1078)
SaveReadOk(resp) == resp.raw_ok /\ resp.get_status = 200 /\ resp.csrf

\* the dict process_selection returns after the save script (lines 1160-1191);
\* with an accession of None the script evaluates null.length after the POST
\* (line 1154) and returns no JSON
SaveReturn(patient, entries, resp) ==
    IF ~resp.raw_ok \/ (SaveReadOk(resp) /\ patient.accession = NoneStr)
    THEN [record_id |-> patient.record_id, status |-> "failed", form_complete |-> 0]
    ELSE [record_id |-> patient.record_id, status |-> "saved",
          form_complete |-> IF SaveReadOk(resp)
                            THEN FormComplete(entries[0] # NoEntry, SelectionOf(entries),
                                              resp.measured)
                            ELSE 0]

(***************************************************************************)
(* ~/Downloads.  nil lists the Nil_downloaded_image_* folders, oldest      *)
(* first, each written as the record whose export produced it (NoId for a  *)
(* folder that was there before); named holds the renamed folders.         *)
(***************************************************************************)
EmptyDownloads == [nil |-> <<>>, named |-> {}]

\* os.path.exists(dst), line 1234
TargetExists(dl, record_id) == \E f \in dl.named : f.name = record_id

\* _rename_download(record_id), lines 1220-1238
_rename_download(dl, record_id) ==
    IF dl.nil = <<>> THEN dl
    ELSE IF TargetExists(dl, record_id) THEN dl
    ELSE [nil |-> SubSeq(dl.nil, 1, Len(dl.nil) - 1),
          named |-> dl.named \cup {[name |-> record_id, content |-> dl.nil[Len(dl.nil)]]}]

(***************************************************************************)
(* Input lines of the interactive loop                                     *)
(***************************************************************************)
LineQuitText == <<"Q", "u", "i", "t">>

LineRedoText == <<"r", "e", "d", "o">>

LineNone == <<"0">>

LineAngio == <<"2", " ", "1", " ", "2", "3">>

LineNeedleAngioComment ==
    <<"1", " ", "1", " ", "5", ",", " ", "2", " ", "1", " ", "2", "3", " ", "D", "S", "A">>

LineZeroCombined == <<"0", ",", " ", "1", " ", "1", " ", "5">>

LineSeriesZero == <<"1", " ", "0", " ", "5">>

\* the lines the coordinator types in the runs of the loop
LoopLines ==
    { LineQuitText, LineRedoText, <<" ">>, LineNone, LineAngio, LineNeedleAngioComment,
      LineZeroCombined, LineSeriesZero }

\* lines 89-113 for every line of the model, computed once: the stripped line
\* in lower case, the comments and the parse of the shorthand
LineRow(l) ==
    LET inp == _parse_input(Strip(l))
    IN  [lower |-> Lower(Strip(l)),
         shorthand |-> inp.shorthand,
         comments |-> inp.comments,
         parsed |-> ParseShorthand(inp.shorthand)]

LineTable == [l \in LoopLines |-> LineRow(l)]

LineInfo(l) == IF l \in LoopLines THEN LineTable[l] ELSE LineRow(l)

ParsedLine(l) == LineInfo(l).parsed

IsSelectionLine(l) ==
    /\ LineInfo(l).lower # <<>>
    /\ LineInfo(l).lower \notin {<<"q", "u", "i", "t">>, <<"r", "e", "d", "o">>}

(***************************************************************************)
(* Selections typed at the prompt, written segment by segment.  A segment  *)
(* carries its text and what the coordinator means by it: zero for the     *)
(* lone "0", ok for "type series image" with type 1..3 and series, image   *)
(* >= 1, and then the three numbers.  Every line built from them is passed  *)
(* whole to process_selection: _parse_input finds no comment in it.        *)
(***************************************************************************)
MaxSegments == 2

Seg(text, zero, ok, t, series, img) ==
    [text |-> text, zero |-> zero, ok |-> ok, t |-> t, series |-> series, img |-> img]

SegZero == Seg(<<"0">>, TRUE, FALSE, 0, 0, 0)

SegNeedle == Seg(<<"1", " ", "1", " ", "5">>, FALSE, TRUE, 1, 1, 5)

SegNeedleAgain == Seg(<<" ", "1", " ", "2", " ", "7">>, FALSE, TRUE, 1, 2, 7)

SegAngio == Seg(<<"2", " ", " ", "1", " ", "2", "3">>, FALSE, TRUE, 2, 1, 23)

SegOtherSigned == Seg(<<"+", "3", " ", " ", "0", "2", " ", "9">>, FALSE, TRUE, 3, 2, 9)

SegOther == Seg(<<"3", " ", "4", " ", "1">>, FALSE, TRUE, 3, 4, 1)

TestSegments ==
    { SegZero, SegNeedle, SegNeedleAgain, SegAngio, SegOtherSigned, SegOther,
      Seg(<<"1", " ", "0", " ", "5">>, FALSE, FALSE, 0, 0, 0),
      Seg(<<"1", " ", "1", " ", "0">>, FALSE, FALSE, 0, 0, 0),
      Seg(<<"4", " ", "1", " ", "1">>, FALSE, FALSE, 0, 0, 0),
      Seg(<<"0", " ", "1", " ", "1">>, FALSE, FALSE, 0, 0, 0),
      Seg(<<"1", " ", "1">>, FALSE, FALSE, 0, 0, 0),
      Seg(<<"1", " ", "1", " ", "1", " ", "1">>, FALSE, FALSE, 0, 0, 0),
      Seg(<<"1", " ", "x", " ", "5">>, FALSE, FALSE, 0, 0, 0),
      Seg(<<"1", " ", "-", "1", " ", "5">>, FALSE, FALSE, 0, 0, 0),
      Seg(<<>>, FALSE, FALSE, 0, 0, 0) }

\* ",".join(text of each segment)
RECURSIVE JoinComma(_)
JoinComma(segs) ==
    IF segs = <<>> THEN <<>>
    ELSE IF Len(segs) = 1 THEN segs[1].text
    ELSE segs[1].text \o <<",">> \o JoinComma(Tail(segs))

\* the selections of up to MaxSegments segments, each with its line
SelectionInputs ==
    { [segs |-> sg, text |-> JoinComma(sg)] :
        sg \in UNION {[1..n -> TestSegments] : n \in 1..MaxSegments} }

(***************************************************************************)
(* Lines typed at the prompt, written token by token.  A token carries its *)
(* text and whether it is purely numeric once its commas are removed.  A   *)
(* line is laid out with single spaces, or with double spaces and a space  *)
(* before and after; trimmed is the line without the outer spaces.         *)
(***************************************************************************)
MaxTokens == 3

TestTokens ==
    { [text |-> <<"2">>, numeric |-> TRUE],
      [text |-> <<"2", "3">>, numeric |-> TRUE],
      [text |-> <<"5", ",">>, numeric |-> TRUE],
      [text |-> <<"1", ",", "2">>, numeric |-> TRUE],
      [text |-> <<",">>, numeric |-> FALSE],
      [text |-> <<"D", "S", "A">>, numeric |-> FALSE],
      [text |-> <<"-", "5">>, numeric |-> FALSE],
      [text |-> <<"7", "a">>, numeric |-> FALSE] }

RECURSIVE JoinWith(_, _)
JoinWith(toks, sep) ==
    IF toks = <<>> THEN <<>>
    ELSE IF Len(toks) = 1 THEN toks[1].text
    ELSE toks[1].text \o sep \o JoinWith(Tail(toks), sep)

TokenInputs ==
    LET seqs == UNION {[1..n -> TestTokens] : n \in 1..MaxTokens}
    IN  { [toks |-> tk, trimmed |-> JoinWith(tk, <<" ">>), text |-> JoinWith(tk, <<" ">>)] :
            tk \in seqs }
        \cup
        { [toks |-> tk, trimmed |-> JoinWith(tk, <<" ", " ">>),
           text |-> <<" ">> \o JoinWith(tk, <<" ", " ">>) \o <<" ">>] : tk \in seqs }

(***************************************************************************)
(* State                                                                   *)
(***************************************************************************)
\* a prefetch thread: its status (none: no thread, run: alive, done: ended),
\* its position in preload_next_patient, its locals and the result it stored
NoWorker ==
    [status |-> "none", pc |-> "", after |-> NoId, all_records |-> <<>>, idx |-> 0,
     result |-> NoPrefetch]

VARIABLES
    registry,                 \* registry form fields of each record (the environment)
    downloads,                \* ~/Downloads: export folders by age, and renamed folders
    screen,                   \* the viewer screen extract_accession() is called on
    _PATIENT_DATA,            \* module global, line 50
    _DASHBOARD_RECORD_CACHE,  \* module global, line 54: [loaded, records]
    _REDCAP_LOCK,             \* module global, line 53: TRUE when the lock is held
    pc,                       \* position of the main thread
    exit_cause,               \* why the main thread ended
    last_id, current_id,      \* main(), lines 73, 81
    prefetch_thread,          \* main(): the prefetch thread the loop holds, and its state
    orphans,                  \* prefetch threads still alive that the loop has dropped (a bag)
    line,                     \* main(): the line read by input()
    ctx,                      \* call site of the running next_patient*: first, redo, advance
    arg_last,                 \* last_record_id of the running next_patient* call
    arg_prefetch,             \* prefetch argument of next_patient_from_prefetch
    all_records, idx,         \* locals of next_patient
    result,                   \* value returned by next_patient*, or by extract_accession
                              \* when it is called on its own
    search_result,            \* value returned by setup_nilread_search in the running call
    vlog,                     \* viewer operations of the running call, in order
    skip_log,                 \* records named by a "Skipping ..." line of the running call
    shorthand, comments,      \* process_selection: its two arguments
    entries,                  \* process_selection: parsed entries
    save_result,              \* value returned by process_selection
    post                      \* the POST submitted by the running process_selection

vars ==
    <<registry, downloads, screen, _PATIENT_DATA, _DASHBOARD_RECORD_CACHE, _REDCAP_LOCK, pc, exit_cause,
      last_id, current_id, prefetch_thread, orphans, line, ctx, arg_last, arg_prefetch,
      all_records, idx, result, search_result, vlog, skip_log, shorthand, comments, entries,
      save_result, post>>

globVars == <<_PATIENT_DATA, _DASHBOARD_RECORD_CACHE>>

wkVars == <<prefetch_thread, orphans>>

loopVars == <<last_id, current_id, line>>

callVars ==
    <<ctx, arg_last, arg_prefetch, all_records, idx, result, search_result, vlog, skip_log>>

selVars == <<shorthand, comments, entries, save_result, post>>

NoCache == [loaded |-> FALSE, records |-> <<>>]

InitCommon ==
    /\ registry \in Registries
    /\ downloads = EmptyDownloads
    /\ screen = NoScreen
    /\ _PATIENT_DATA = <<>>
    /\ _DASHBOARD_RECORD_CACHE = NoCache
    /\ _REDCAP_LOCK = FALSE
    /\ exit_cause = ""
    /\ line = <<>>
    /\ all_records = <<>>
    /\ idx = 0
    /\ result = NoResult
    /\ search_result = ""
    /\ vlog = <<>>
    /\ skip_log = <<>>
    /\ entries = EmptyEntries
    /\ comments = <<>>
    /\ shorthand = <<>>
    /\ save_result = NoSaveResult
    /\ post = NoPost
    /\ prefetch_thread = NoWorker
    /\ orphans = EmptyBag

\* main(), line 73: last_id = sys.argv[1]
Init ==
    /\ InitCommon
    /\ pc = "start"
    /\ last_id = AbsentId
    /\ current_id = NoId
    /\ ctx = ""
    /\ arg_last = NoId
    /\ arg_prefetch = NoPrefetch

(***************************************************************************)
(* _redcap_js (lines 60-65): the lock around a registry script.  A thread  *)
(* is inside screen.safari_js on the registry tab exactly while it is at   *)
(* one of the positions named ..._x.                                       *)
(***************************************************************************)
\* the mutant: the script is started without taking the lock
RedcapEnter_NoLock ==
    _REDCAP_LOCK' = _REDCAP_LOCK

\* `with _REDCAP_LOCK:` entered, screen.safari_js started
RedcapEnter ==
    /\ ~_REDCAP_LOCK
    /\ _REDCAP_LOCK' = TRUE

\* screen.safari_js returned, the lock released
RedcapExit ==
    _REDCAP_LOCK' = FALSE

MainExecuting == pc \in {"np_nav_x", "np_read_x", "np_fetch_x", "ps_save_x"}

WorkerExecuting(w) == w.status = "run" /\ w.pc = "w_fetch_x"

\* the number of threads inside a registry script
RegistryExecutions ==
    (IF MainExecuting THEN 1 ELSE 0)
    + (IF WorkerExecuting(prefetch_thread) THEN 1 ELSE 0)
    + BagCardinality([w \in {x \in BagToSet(orphans) : WorkerExecuting(x)} |-> orphans[w]])

(***************************************************************************)
(* femoral_loop: _start_prefetch, _get_prefetch_result                     *)
(***************************************************************************)
\* the number of prefetch threads that are alive
AliveWorkers ==
    BagCardinality(orphans) + (IF prefetch_thread.status = "run" THEN 1 ELSE 0)

\* _start_prefetch(after_record_id), lines 40-56: a new thread is started and
\* replaces the one the loop held, which keeps running if it has not ended
StartPrefetch(after_record_id) ==
    /\ AliveWorkers < MaxWorkers
    /\ orphans' = IF prefetch_thread.status = "run"
                  THEN orphans (+) SetToBag({prefetch_thread})
                  ELSE orphans
    /\ prefetch_thread' = [NoWorker EXCEPT !.status = "run", !.pc = "w_start",
                                           !.after = after_record_id]

\* _get_prefetch_result, lines 59-65
_get_prefetch_result ==
    IF prefetch_thread.status = "none" THEN NoPrefetch
    ELSE IF prefetch_thread.status = "run" THEN NoPrefetch
    ELSE prefetch_thread.result

(***************************************************************************)
(* Main thread: next_patient (lines 1328-1402)                             *)
(***************************************************************************)
Running == pc \notin {"exited", "crashed"}

\* the process ends: its daemon threads end with it
Terminate(how, cause) ==
    /\ pc' = how
    /\ exit_cause' = cause
    /\ prefetch_thread' = NoWorker
    /\ orphans' = EmptyBag
    /\ _REDCAP_LOCK' = FALSE

\* a call of next_patient(last) from call site c begins
EnterNextPatient(last, c) ==
    /\ pc' = "np_begin"
    /\ ctx' = c
    /\ arg_last' = last
    /\ all_records' = <<>>
    /\ idx' = 0
    /\ result' = NoResult
    /\ search_result' = ""
    /\ vlog' = <<>>
    /\ skip_log' = <<>>

\* main(), line 76: the first call
Start ==
    /\ pc = "start"
    /\ EnterNextPatient(last_id, "first")
    /\ UNCHANGED <<registry, screen, downloads, globVars, _REDCAP_LOCK, loopVars, selVars, wkVars, exit_cause,
                   arg_prefetch>>

\* lines 1345-1351 and 189: return_to_directory(), then the dashboard
\* navigation script is started under the lock
NpNavBegin ==
    /\ pc = "np_begin"
    /\ RedcapEnter
    /\ vlog' = Append(vlog, "return_to_directory")
    /\ pc' = "np_nav_x"
    /\ UNCHANGED <<registry, screen, downloads, globVars, loopVars, selVars, wkVars, exit_cause, ctx, arg_last,
                   arg_prefetch, all_records, idx, result, search_result, skip_log>>

\* line 189-190: the navigation script returned
NpNavEnd ==
    /\ pc = "np_nav_x"
    /\ RedcapExit
    /\ pc' = "np_read"
    /\ UNCHANGED <<registry, screen, downloads, globVars, loopVars, selVars, wkVars, exit_cause, callVars>>

\* line 204: the table-read script is started under the lock
NpReadBegin ==
    /\ pc = "np_read"
    /\ RedcapEnter
    /\ pc' = "np_read_x"
    /\ UNCHANGED <<registry, screen, downloads, globVars, loopVars, selVars, wkVars, exit_cause, callVars>>

\* lines 204-206 and 1353-1369: the table-read script returned the list
\* records; the list is cached, the start index computed
NpReadList(records) ==
    /\ pc = "np_read_x"
    /\ RedcapExit
    /\ _DASHBOARD_RECORD_CACHE' = [loaded |-> TRUE, records |-> records]
    /\ all_records' = records
    /\ LET start == StartIdx(records, arg_last)
       IN  IF records = <<>>
           THEN /\ pc' = "np_ret"
                /\ result' = [NoResult EXCEPT !.error = "no records"]
                /\ idx' = idx
           ELSE IF start >= Len(records)
           THEN /\ pc' = "np_ret"
                /\ result' = [NoResult EXCEPT !.error = "no more records"]
                /\ idx' = idx
           ELSE /\ pc' = "np_fetch"
                /\ result' = result
                /\ idx' = start
    /\ UNCHANGED <<registry, screen, downloads, _PATIENT_DATA, loopVars, selVars, wkVars, exit_cause, ctx,
                   arg_last, arg_prefetch, search_result, vlog, skip_log>>

\* the table read of a registry whose record list stays as it is
NpReadEnd == NpReadList(Dashboard)

\* line 204 and 1351: the table-read script returned a payload json.loads
\* rejects; neither _get_dashboard_records nor next_patient catches it
NpReadFail ==
    /\ pc = "np_read_x"
    /\ Terminate("crashed", "JSONDecodeError: dashboard records")
    /\ UNCHANGED <<registry, screen, downloads, globVars, loopVars, selVars, callVars>>

\* lines 1373-1378, load_patient lines 221-224: the store is emptied, the
\* fetch script is started under the lock
NpFetchBegin ==
    /\ pc = "np_fetch"
    /\ RedcapEnter
    /\ _PATIENT_DATA' = <<>>
    /\ pc' = "np_fetch_x"
    /\ UNCHANGED <<registry, screen, downloads, _DASHBOARD_RECORD_CACHE, loopVars, selVars, wkVars, exit_cause,
                   callVars>>

\* load_patient lines 224-244, then next_patient lines 1379-1402
NpFetchEnd ==
    /\ pc = "np_fetch_x"
    /\ LET record_id == all_records[idx + 1]
           patient == FetchRecord(record_id, registry[record_id])
           loaded == IF patient.error # "" THEN <<>> ELSE <<patient>>
       IN  IF ~GetHasFemoral(patient)
           THEN \* skipped: idx += 1; the while-else returns "no more records"
                /\ RedcapExit
                /\ _PATIENT_DATA' = loaded
                /\ IF idx + 1 < Len(all_records)
                   THEN pc' = "np_fetch" /\ idx' = idx + 1 /\ result' = result
                   ELSE /\ pc' = "np_ret"
                        /\ idx' = idx + 1
                        /\ result' = [NoResult EXCEPT !.error = "no more records"]
                /\ skip_log' = Append(skip_log, record_id)          \* line 1380
                /\ UNCHANGED <<search_result, vlog, exit_cause, wkVars>>
           ELSE IF loaded = <<>>
           THEN \* setup_nilread_search raises RuntimeError (line 336); nothing catches it
                /\ _PATIENT_DATA' = loaded
                /\ Terminate("crashed", "RuntimeError: No patient loaded")
                /\ UNCHANGED <<idx, result, search_result, vlog, skip_log>>
           ELSE \E sr \in SearchReturns, acc \in LoopAccResults :
                    LET r == SearchAndOpen(patient, idx + 1, FALSE, sr, acc)
                    IN  /\ RedcapExit
                        /\ _PATIENT_DATA' = <<r.patient>>
                        /\ search_result' = r.search_error
                        /\ vlog' = vlog \o r.ops
                        /\ result' = r.result
                        /\ pc' = "np_ret"
                        /\ UNCHANGED <<idx, exit_cause, wkVars, skip_log>>
    /\ UNCHANGED <<registry, screen, downloads, _DASHBOARD_RECORD_CACHE, loopVars, selVars, ctx, arg_last,
                   arg_prefetch, all_records>>

(***************************************************************************)
(* Main thread: next_patient_from_prefetch (lines 1282-1325)               *)
(***************************************************************************)
\* lines 1284-1323: the preloaded patient is used
AdvancePrefetched ==
    /\ pc = "npp_call"
    /\ PrefetchUsable(arg_prefetch, arg_last)
    /\ LET patient == arg_prefetch.patient_data
       IN  IF ~GetHasFemoral(patient)
           THEN \* line 1299-1301: return next_patient(record_id)
                /\ pc' = "np_begin"
                /\ arg_last' = patient.record_id
                /\ vlog' = <<"return_to_directory">>
                /\ skip_log' = Append(skip_log, patient.record_id)  \* line 1300
                /\ UNCHANGED <<_PATIENT_DATA, search_result, result>>
           ELSE \E sr \in SearchReturns, acc \in LoopAccResults :
                    LET r == SearchAndOpen(patient, arg_prefetch.position, TRUE, sr, acc)
                    IN  /\ _PATIENT_DATA' = <<r.patient>>
                        /\ search_result' = r.search_error
                        /\ vlog' = <<"return_to_directory">> \o r.ops
                        /\ result' = r.result
                        /\ pc' = "np_ret"
                        /\ arg_last' = arg_last
                        /\ skip_log' = skip_log
    /\ UNCHANGED <<registry, screen, downloads, _DASHBOARD_RECORD_CACHE, _REDCAP_LOCK, loopVars, selVars, wkVars,
                   exit_cause, ctx, arg_prefetch, all_records, idx>>

\* line 1325: return next_patient(last_record_id)
AdvanceSync ==
    /\ pc = "npp_call"
    /\ ~PrefetchUsable(arg_prefetch, arg_last)
    /\ pc' = "np_begin"
    /\ UNCHANGED <<registry, screen, downloads, globVars, _REDCAP_LOCK, loopVars, selVars, wkVars, exit_cause,
                   callVars>>

(***************************************************************************)
(* Main thread: the interactive loop (femoral_loop.main, lines 76-131)     *)
(***************************************************************************)
ClearCall ==
    /\ ctx' = ""
    /\ arg_last' = NoId
    /\ arg_prefetch' = NoPrefetch
    /\ all_records' = <<>>
    /\ idx' = 0
    /\ result' = NoResult
    /\ search_result' = ""
    /\ vlog' = <<>>
    /\ skip_log' = <<>>

\* lines 77-79, 100-102, 122-125: the result carries an error
NextError ==
    /\ pc = "np_ret"
    /\ result.error # ""
    /\ IF ctx = "redo"
       THEN /\ pc' = "prompt"
            /\ ClearCall
            /\ UNCHANGED <<exit_cause, wkVars, _REDCAP_LOCK>>
       ELSE /\ Terminate("exited", IF ctx = "first" THEN "sys.exit(1)" ELSE "break")
            /\ UNCHANGED callVars
    /\ UNCHANGED <<registry, screen, downloads, globVars, loopVars, selVars>>

\* lines 81-85, 103-108, 127-131: the record is announced, its prefetch started
NextReady ==
    /\ pc = "np_ret"
    /\ result.error = ""
    /\ current_id' = result.record_id
    /\ StartPrefetch(result.record_id)
    /\ pc' = "prompt"
    /\ ClearCall
    /\ UNCHANGED <<registry, screen, downloads, globVars, _REDCAP_LOCK, last_id, line, selVars, exit_cause>>

\* line 89: input() returns a line
ReadLine ==
    /\ pc = "prompt"
    /\ \E l \in LoopLines : line' = l
    /\ pc' = "got_line"
    /\ save_result' = NoSaveResult
    /\ UNCHANGED <<registry, screen, downloads, globVars, _REDCAP_LOCK, last_id, current_id, wkVars,
                   shorthand, entries, comments, post, exit_cause, callVars>>

\* lines 90-92: EOFError or KeyboardInterrupt
ReadEOF ==
    /\ pc = "prompt"
    /\ Terminate("exited", "eof")
    /\ UNCHANGED <<registry, screen, downloads, globVars, loopVars, selVars, callVars>>

\* lines 94-95
LineEmpty ==
    /\ pc = "got_line"
    /\ LineInfo(line).lower = <<>>
    /\ pc' = "prompt"
    /\ line' = <<>>
    /\ UNCHANGED <<registry, screen, downloads, globVars, _REDCAP_LOCK, last_id, current_id, wkVars,
                   selVars, exit_cause, callVars>>

\* lines 96-97
LineQuit ==
    /\ pc = "got_line"
    /\ LineInfo(line).lower = <<"q", "u", "i", "t">>
    /\ Terminate("exited", "quit")
    /\ UNCHANGED <<registry, screen, downloads, globVars, loopVars, selVars, callVars>>

\* lines 98-99
LineRedo ==
    /\ pc = "got_line"
    /\ LineInfo(line).lower = <<"r", "e", "d", "o">>
    /\ EnterNextPatient(last_id, "redo")
    /\ line' = <<>>
    /\ UNCHANGED <<registry, screen, downloads, globVars, _REDCAP_LOCK, last_id, current_id, wkVars,
                   selVars, exit_cause, arg_prefetch>>

\* the mutant: the viewer is returned to the list before the shorthand is parsed
SelectionInvalid_ReturnsFirst ==
    /\ pc = "got_line"
    /\ IsSelectionLine(line)
    /\ ~ParsedLine(line).ok
    /\ _PATIENT_DATA # <<>>
    /\ pc' = "prompt"
    /\ vlog' = Append(vlog, "return_to_directory")
    /\ save_result' = [NoSaveResult EXCEPT !.record_id = _PATIENT_DATA[1].record_id,
                                           !.status = "invalid_input"]
    /\ line' = <<>>
    /\ UNCHANGED <<registry, screen, downloads, globVars, _REDCAP_LOCK, last_id, current_id, wkVars,
                   shorthand, entries, comments, post, exit_cause, ctx, arg_last,
                   arg_prefetch, all_records, idx, result, search_result, skip_log>>

\* process_selection lines 975-1023 returning invalid_input, loop lines 114-116
SelectionInvalid ==
    /\ pc = "got_line"
    /\ IsSelectionLine(line)
    /\ ~ParsedLine(line).ok
    /\ IF _PATIENT_DATA = <<>>
       THEN /\ Terminate("crashed", "RuntimeError: No patient loaded")
            /\ UNCHANGED <<save_result, line>>
       ELSE /\ pc' = "prompt"
            /\ save_result' = [NoSaveResult EXCEPT !.record_id = _PATIENT_DATA[1].record_id,
                                                   !.status = "invalid_input"]
            /\ line' = <<>>
            /\ UNCHANGED <<exit_cause, wkVars, _REDCAP_LOCK>>
    /\ UNCHANGED <<registry, screen, downloads, globVars, last_id, current_id, shorthand, entries, comments, post,
                   callVars>>

\* the mutant: the return to the directory is left for after the save
SelectionValid_SaveBeforeReturn ==
    /\ pc = "got_line"
    /\ IsSelectionLine(line)
    /\ ParsedLine(line).ok
    /\ IF _PATIENT_DATA = <<>>
       THEN /\ Terminate("crashed", "RuntimeError: No patient loaded")
            /\ UNCHANGED <<_PATIENT_DATA, shorthand, entries, comments, vlog>>
       ELSE \E acc \in LoopAccResults :
                LET patient == _PATIENT_DATA[1]
                    p == ParsedLine(line)
                IN  /\ entries' = p.entries
                    /\ shorthand' = LineInfo(line).shorthand
                    /\ comments' = LineInfo(line).comments
                    /\ vlog' = (IF p.entries[2] # NoEntry THEN <<"export_and_download">>
                                ELSE <<>>)
                               \o <<"extract_accession">>
                    /\ _PATIENT_DATA' = IF acc.error = ""
                                        THEN <<[patient EXCEPT !.accession = acc.pick.acc]>>
                                        ELSE _PATIENT_DATA
                    /\ pc' = "ps_save"
                    /\ UNCHANGED <<exit_cause, wkVars, _REDCAP_LOCK>>
    /\ UNCHANGED <<registry, screen, downloads, _DASHBOARD_RECORD_CACHE, loopVars, save_result, post,
                   ctx, arg_last, arg_prefetch, all_records, idx, result, search_result,
                   skip_log>>

\* process_selection lines 1025-1047: export when angiogram, return to the
\* list, re-extract the accession
SelectionValid ==
    /\ pc = "got_line"
    /\ IsSelectionLine(line)
    /\ ParsedLine(line).ok
    /\ IF _PATIENT_DATA = <<>>
       THEN /\ Terminate("crashed", "RuntimeError: No patient loaded")
            /\ UNCHANGED <<_PATIENT_DATA, shorthand, entries, comments, vlog>>
       ELSE \E acc \in LoopAccResults :
                LET patient == _PATIENT_DATA[1]
                    p == ParsedLine(line)
                IN  /\ entries' = p.entries
                    /\ shorthand' = LineInfo(line).shorthand
                    /\ comments' = LineInfo(line).comments
                    /\ vlog' = (IF p.entries[2] # NoEntry THEN <<"export_and_download">>
                                ELSE <<>>)
                               \o <<"return_to_directory", "extract_accession">>
                    /\ _PATIENT_DATA' = IF acc.error = ""
                                        THEN <<[patient EXCEPT !.accession = acc.pick.acc]>>
                                        ELSE _PATIENT_DATA
                    /\ pc' = "ps_save"
                    /\ UNCHANGED <<exit_cause, wkVars, _REDCAP_LOCK>>
    /\ UNCHANGED <<registry, screen, downloads, _DASHBOARD_RECORD_CACHE, loopVars, save_result, post,
                   ctx, arg_last, arg_prefetch, all_records, idx, result, search_result,
                   skip_log>>

\* line 1159: the save script is started under the lock
PsSaveBegin ==
    /\ pc = "ps_save"
    /\ RedcapEnter
    /\ pc' = "ps_save_x"
    /\ UNCHANGED <<registry, screen, downloads, globVars, loopVars, selVars, wkVars, exit_cause, callVars>>

\* lines 1159-1191: the save script returned
PsSaveEnd ==
    /\ pc = "ps_save_x"
    /\ RedcapExit
    /\ \E resp \in SaveResponses :
           /\ post' = IF SaveReadOk(resp)
                      THEN SavePost(_PATIENT_DATA[1], entries, comments, resp)
                      ELSE NoPost
           /\ save_result' = SaveReturn(_PATIENT_DATA[1], entries, resp)
           \* lines 1160-1182: the rename is reached when the script's result parsed
           /\ downloads' = IF /\ entries[2] # NoEntry
                              /\ SaveReturn(_PATIENT_DATA[1], entries, resp).status = "saved"
                           THEN _rename_download(downloads, _PATIENT_DATA[1].record_id)
                           ELSE downloads
    /\ pc' = "ps_ret"
    /\ UNCHANGED <<registry, screen, globVars, loopVars, shorthand, entries, comments, wkVars,
                   exit_cause, callVars>>

\* lines 118-121: last_id = current_id, the prefetch result is read and
\* next_patient_from_prefetch(current_id, prefetch) is called
LoopAdvance ==
    /\ pc = "ps_ret"
    /\ last_id' = current_id
    /\ line' = <<>>
    /\ pc' = "npp_call"
    /\ ctx' = "advance"
    /\ arg_last' = current_id
    /\ arg_prefetch' = _get_prefetch_result
    /\ all_records' = <<>>
    /\ idx' = 0
    /\ result' = NoResult
    /\ search_result' = ""
    /\ vlog' = <<>>
    /\ skip_log' = <<>>
    /\ entries' = EmptyEntries
    /\ comments' = <<>>
    /\ shorthand' = <<>>
    /\ save_result' = NoSaveResult
    /\ post' = NoPost
    /\ UNCHANGED <<registry, screen, downloads, globVars, _REDCAP_LOCK, current_id, wkVars, exit_cause>>

(***************************************************************************)
(* Prefetch threads: _worker, preload_next_patient (lines 1241-1279)       *)
(***************************************************************************)
\* the thread ends having stored res (femoral_loop lines 44-52)
WorkerDone(res) == [NoWorker EXCEPT !.status = "done", !.result = res]

\* lines 1247-1262: the cached list is read, the start index computed
WStart(w) ==
    LET records == _DASHBOARD_RECORD_CACHE.records
        start == IndexOf(records, w.after)
    IN  IF records = <<>> THEN WorkerDone(PrefetchError(w.after))
        ELSE IF start >= Len(records) THEN WorkerDone(PrefetchNoMore(w.after))
        ELSE [w EXCEPT !.pc = "w_fetch", !.all_records = records, !.idx = start]

\* line 1266: the fetch script is started
WFetchBegin(w) == [w EXCEPT !.pc = "w_fetch_x"]

\* the mutant: a record whose fetch succeeded is returned whatever its sites
WFetchEnd_NoSiteTest(w) ==
    LET record_id == w.all_records[w.idx + 1]
        patient == FetchRecord(record_id, registry[record_id])
    IN  IF patient.error # ""
        THEN IF w.idx + 1 < Len(w.all_records)
             THEN [w EXCEPT !.pc = "w_fetch", !.idx = w.idx + 1]
             ELSE WorkerDone(PrefetchNoMore(w.after))
        ELSE WorkerDone(PrefetchReady(w.after, w.idx, patient))

\* lines 1266-1279: the fetch script returned
WFetchEnd(w) ==
    LET record_id == w.all_records[w.idx + 1]
        patient == FetchRecord(record_id, registry[record_id])
    IN  IF patient.error # "" \/ ~GetHasFemoral(patient)
        THEN IF w.idx + 1 < Len(w.all_records)
             THEN [w EXCEPT !.pc = "w_fetch", !.idx = w.idx + 1]
             ELSE WorkerDone(PrefetchNoMore(w.after))
        ELSE WorkerDone(PrefetchReady(w.after, w.idx, patient))

\* the bag of dropped threads after thread w moved to state w2: a dropped
\* thread that ended is gone
OrphanStep(w, w2) ==
    IF w2.status = "done" THEN orphans (-) SetToBag({w})
    ELSE (orphans (-) SetToBag({w})) (+) SetToBag({w2})

\* steps of the thread the loop holds
WkStart ==
    /\ Running
    /\ prefetch_thread.status = "run"
    /\ prefetch_thread.pc = "w_start"
    /\ _DASHBOARD_RECORD_CACHE.loaded
    /\ prefetch_thread' = WStart(prefetch_thread)
    /\ UNCHANGED <<registry, screen, downloads, globVars, _REDCAP_LOCK, pc, exit_cause, loopVars, callVars,
                   selVars, orphans>>

WkFetchBegin ==
    /\ Running
    /\ prefetch_thread.status = "run"
    /\ prefetch_thread.pc = "w_fetch"
    /\ RedcapEnter
    /\ prefetch_thread' = WFetchBegin(prefetch_thread)
    /\ UNCHANGED <<registry, screen, downloads, globVars, pc, exit_cause, loopVars, callVars, selVars, orphans>>

\* the mutant: the thread fetches with load_patient (lines 211-230), which
\* empties the active patient context before its fetch
WkFetchEnd_LoadPatient ==
    /\ Running
    /\ prefetch_thread.status = "run"
    /\ prefetch_thread.pc = "w_fetch_x"
    /\ RedcapExit
    /\ prefetch_thread' = WFetchEnd(prefetch_thread)
    /\ _PATIENT_DATA' = <<>>
    /\ UNCHANGED <<registry, screen, downloads, _DASHBOARD_RECORD_CACHE, pc, exit_cause, loopVars, callVars,
                   selVars, orphans>>

WkFetchEnd ==
    /\ Running
    /\ prefetch_thread.status = "run"
    /\ prefetch_thread.pc = "w_fetch_x"
    /\ RedcapExit
    /\ prefetch_thread' = WFetchEnd(prefetch_thread)
    /\ UNCHANGED <<registry, screen, downloads, globVars, pc, exit_cause, loopVars, callVars, selVars, orphans>>

\* steps of a thread the loop has dropped
OrphanStart ==
    /\ Running
    /\ \E w \in BagToSet(orphans) :
           /\ w.pc = "w_start"
           /\ _DASHBOARD_RECORD_CACHE.loaded
           /\ orphans' = OrphanStep(w, WStart(w))
    /\ UNCHANGED <<registry, screen, downloads, globVars, _REDCAP_LOCK, pc, exit_cause, loopVars, callVars,
                   selVars, prefetch_thread>>

OrphanFetchBegin ==
    /\ Running
    /\ \E w \in BagToSet(orphans) :
           /\ w.pc = "w_fetch"
           /\ RedcapEnter
           /\ orphans' = OrphanStep(w, WFetchBegin(w))
    /\ UNCHANGED <<registry, screen, downloads, globVars, pc, exit_cause, loopVars, callVars, selVars,
                   prefetch_thread>>

OrphanFetchEnd ==
    /\ Running
    /\ \E w \in BagToSet(orphans) :
           /\ w.pc = "w_fetch_x"
           /\ RedcapExit
           /\ orphans' = OrphanStep(w, WFetchEnd(w))
    /\ UNCHANGED <<registry, screen, downloads, globVars, pc, exit_cause, loopVars, callVars, selVars,
                   prefetch_thread>>

(***************************************************************************)
(* The interactive loop with its prefetch threads                          *)
(***************************************************************************)
Next ==
    \/ Start
    \/ NpNavBegin
    \/ NpNavEnd
    \/ NpReadBegin
    \/ NpReadEnd
    \/ NpReadFail
    \/ NpFetchBegin
    \/ NpFetchEnd
    \/ AdvancePrefetched
    \/ AdvanceSync
    \/ NextError
    \/ NextReady
    \/ ReadLine
    \/ ReadEOF
    \/ LineEmpty
    \/ LineQuit
    \/ LineRedo
    \/ SelectionInvalid
    \/ SelectionValid
    \/ PsSaveBegin
    \/ PsSaveEnd
    \/ LoopAdvance
    \/ WkStart
    \/ WkFetchBegin
    \/ WkFetchEnd
    \/ OrphanStart
    \/ OrphanFetchBegin
    \/ OrphanFetchEnd

Spec == Init /\ [][Next]_vars

(***************************************************************************)
(* next_patient_from_prefetch called by itself: any last-processed         *)
(* identifier with any result preload_next_patient can have stored         *)
(***************************************************************************)
RECURSIVE PreloadScan(_, _, _, _)
\* the while loop of preload_next_patient, lines 1264-1279, run to its end
PreloadScan(reg, records, i, after) ==
    IF i >= Len(records) THEN PrefetchNoMore(after)
    ELSE LET patient == FetchRecord(records[i + 1], reg[records[i + 1]])
         IN  IF patient.error # "" \/ ~GetHasFemoral(patient)
             THEN PreloadScan(reg, records, i + 1, after)
             ELSE PrefetchReady(after, i, patient)

\* preload_next_patient(after), lines 1241-1279, on the loaded dashboard
preload_next_patient(reg, after) ==
    PreloadScan(reg, Dashboard, StartIdx(Dashboard, after), after)

\* the identifiers passed as last_record_id
AdvanceIds == {AbsentId} \cup {RecId(i) : i \in 1..(NumRecords - 1)}

\* what _get_prefetch_result can hand to the advance
AdvancePrefetches(reg) ==
    {NoPrefetch} \cup {preload_next_patient(reg, a) : a \in AdvanceIds}

InitAdvance ==
    /\ InitCommon
    /\ pc = "npp_call"
    /\ ctx = "advance"
    /\ last_id \in AdvanceIds
    /\ current_id = last_id
    /\ arg_last = last_id
    /\ arg_prefetch \in AdvancePrefetches(registry)

NextAdvance ==
    \/ AdvancePrefetched
    \/ AdvanceSync
    \/ NpNavBegin
    \/ NpNavEnd
    \/ NpReadBegin
    \/ NpReadEnd
    \/ NpReadFail
    \/ NpFetchBegin
    \/ NpFetchEnd

SpecAdvance == InitAdvance /\ [][NextAdvance]_vars

(***************************************************************************)
(* process_selection on the selections of SelectionInputs: the first       *)
(* record is presented, its prefetch has ended, and the coordinator has    *)
(* typed the line (femoral_loop lines 89-113, femoral_batch 955-1191).     *)
(***************************************************************************)
\* every record eligible
SelectionRegistry ==
    CHOOSE f \in Registries :
        \A id \in RecIds : HasFemoral(f[id].access_site_1, f[id].access_site_2)

\* the accession the presented context can hold: None, or what
\* extract_accession stored when the record was presented
PresentedAccessions ==
    {NoneStr} \cup {a.pick.acc : a \in {x \in LoopAccResults : x.error = ""}}

InitPresented ==
    /\ registry = SelectionRegistry
    /\ \E a \in PresentedAccessions :
           _PATIENT_DATA =
               <<[FetchRecord(RecId(1), registry[RecId(1)]) EXCEPT !.accession = a]>>
    /\ _DASHBOARD_RECORD_CACHE = [loaded |-> TRUE, records |-> Dashboard]
    /\ _REDCAP_LOCK = FALSE
    /\ exit_cause = ""
    /\ last_id = AbsentId
    /\ current_id = RecId(1)
    /\ prefetch_thread = WorkerDone(preload_next_patient(registry, RecId(1)))
    /\ orphans = EmptyBag
    /\ ctx = ""
    /\ arg_last = NoId
    /\ arg_prefetch = NoPrefetch
    /\ all_records = <<>>
    /\ idx = 0
    /\ result = NoResult
    /\ search_result = ""
    /\ vlog = <<>>
    /\ skip_log = <<>>
    /\ entries = EmptyEntries
    /\ comments = <<>>
    /\ shorthand = <<>>
    /\ save_result = NoSaveResult
    /\ post = NoPost

\* the record is presented and the coordinator has typed one of lines
InitGotLine(lines) ==
    /\ InitPresented
    /\ pc = "got_line"
    /\ line \in lines
    /\ IsSelectionLine(line)
    /\ screen = NoScreen

\* what ~/Downloads holds when the line is typed: nothing, an older export
\* folder, a folder already named as the presented record
DownloadDirs ==
    { [nil |-> n, named |-> m] :
        n \in {<<>>, <<NoId>>}, m \in {{}, {[name |-> RecId(1), content |-> NoId]}} }

InitSelection ==
    /\ InitGotLine({inp.text : inp \in SelectionInputs})
    /\ downloads \in DownloadDirs

\* the browser finishes the download that export_and_download started for
\* the presented record (lines 1030-1034); the code waits 10 s, not for it
DownloadArrives ==
    /\ pc \in {"ps_save", "ps_save_x"}
    /\ \E i \in DOMAIN vlog : vlog[i] = "export_and_download"
    /\ \A i \in DOMAIN downloads.nil : downloads.nil[i] # _PATIENT_DATA[1].record_id
    /\ downloads' = [downloads EXCEPT !.nil = Append(@, _PATIENT_DATA[1].record_id)]
    /\ UNCHANGED <<registry, screen, globVars, _REDCAP_LOCK, pc, exit_cause, loopVars, wkVars, callVars,
                   selVars>>

NextSelection ==
    \/ DownloadArrives
    \/ SelectionInvalid
    \/ SelectionValid
    \/ PsSaveBegin
    \/ PsSaveEnd

SpecSelection == InitSelection /\ [][NextSelection]_vars

(***************************************************************************)
(* _parse_input on the lines of TokenInputs (femoral_loop line 110)        *)
(***************************************************************************)
InitParseInput ==
    /\ InitGotLine({inp.text : inp \in TokenInputs})
    /\ downloads = EmptyDownloads

\* line 110: shorthand, comments = _parse_input(line)
ParseInput ==
    /\ pc = "got_line"
    /\ IsSelectionLine(line)
    /\ shorthand' = LineInfo(line).shorthand
    /\ comments' = LineInfo(line).comments
    /\ pc' = "parsed"
    /\ UNCHANGED <<registry, screen, downloads, globVars, _REDCAP_LOCK, loopVars, wkVars, exit_cause, callVars,
                   entries, save_result, post>>

SpecParseInput == InitParseInput /\ [][ParseInput]_vars

(***************************************************************************)
(* One call of extract_accession on the presented record, step by step    *)
(* (lines 446-501): acc_js, the expand click, retry_js, the store.         *)
(***************************************************************************)
MaxRows == 2

\* the accession cell of the row at position i of the grid
AccAt(i) == <<"ACC-1", "ACC-2", "ACC-3", "ACC-4">>[i]

DescFL == <<"N", "R", " ", "F", "L", " ", "A", "n", "g", "i", "o">>

DescFLLower == <<"n", "r", " ", "f", "l", " ", "r", "u", "n">>

DescPV == <<"P", "V", " ", "A", "N", "G", "I", "O", "G", "R", "A", "P", "H", "Y">>

DescUS == <<"U", "S", " ", "D", "o", "p", "p", "l", "e", "r">>

\* the kinds of study row shown: the cells of the row, and pref, written by
\* hand, telling whether the description begins with a preferred prefix
StudyKinds ==
    { [cells |-> 12, desc |-> DescFL,      pref |-> TRUE,  images |-> 4, hasacc |-> TRUE,  toggle |-> FALSE],
      [cells |-> 12, desc |-> DescFLLower, pref |-> TRUE,  images |-> 4, hasacc |-> TRUE,  toggle |-> FALSE],
      [cells |-> 13, desc |-> DescPV,      pref |-> TRUE,  images |-> 7, hasacc |-> TRUE,  toggle |-> FALSE],
      [cells |-> 12, desc |-> DescFL,      pref |-> TRUE,  images |-> 1, hasacc |-> TRUE,  toggle |-> FALSE],
      [cells |-> 12, desc |-> DescFL,      pref |-> TRUE,  images |-> 6, hasacc |-> FALSE, toggle |-> FALSE],
      [cells |-> 12, desc |-> DescUS,      pref |-> FALSE, images |-> 5, hasacc |-> TRUE,  toggle |-> FALSE],
      [cells |-> 12, desc |-> DescUS,      pref |-> FALSE, images |-> 9, hasacc |-> TRUE,  toggle |-> FALSE],
      [cells |-> 12, desc |-> DescUS,      pref |-> FALSE, images |-> 9, hasacc |-> FALSE, toggle |-> FALSE],
      [cells |-> 12, desc |-> DescUS,      pref |-> FALSE, images |-> 1, hasacc |-> TRUE,  toggle |-> FALSE],
      [cells |-> 2,  desc |-> <<>>,        pref |-> FALSE, images |-> 0, hasacc |-> FALSE, toggle |-> TRUE],
      [cells |-> 2,  desc |-> <<>>,        pref |-> FALSE, images |-> 0, hasacc |-> FALSE, toggle |-> FALSE] }

\* the grids of one to max rows of these kinds
StudyGrids(max) == UNION { [1..n -> StudyKinds] : n \in 1..max }

\* the rows of a grid as the scripts read them
RowsOf(grid) ==
    [i \in 1..Len(grid) |->
        [cells |-> grid[i].cells, desc |-> grid[i].desc,
         mod |-> IF grid[i].cells >= 12 THEN "XA" ELSE "",
         images |-> grid[i].images,
         acc |-> IF grid[i].hasacc THEN AccAt(i) ELSE "",
         toggle |-> grid[i].toggle]]

AllCollapsed(grid) == \A i \in 1..Len(grid) : grid[i].cells < 12

\* a screen under test: the grid shown, and the grid shown after an expand
\* click and the wait (any grid, the same grid, or no row at all)
StudyScreens(max) ==
    { [grid |-> g, after |-> <<>>] :
        g \in {<<>>} \cup {x \in StudyGrids(max) : ~AllCollapsed(x)} }
        \cup
    { [grid |-> g, after |-> a] :
        g \in {x \in StudyGrids(max) : AllCollapsed(x)}, a \in {<<>>} \cup StudyGrids(max) }

\* the mutant: no row is ever taken as expanded
HasExpanded_Never(rows) == \E i \in 1..Len(rows) : rows[i].cells >= 12 /\ FALSE

\* lines 455-459: some row is already expanded (12 or more cells)
HasExpanded(rows) == \E i \in 1..Len(rows) : rows[i].cells >= 12

InitStudy ==
    /\ InitPresented
    /\ pc = "ea_call"
    /\ line = <<>>
    /\ downloads = EmptyDownloads
    /\ \E t \in StudyScreens(MaxRows) : screen = ScreenOf(RowsOf(t.grid), RowsOf(t.after))

\* lines 488-501: the error of the script, "accession empty", or the store
\* into the context record and the result
EaFinish(p, err, clicked) ==
    /\ pc' = "ea_ret"
    /\ IF ~p.found
       THEN /\ result' = [error |-> err, pick |-> NoPick, expanded |-> clicked]
            /\ UNCHANGED _PATIENT_DATA
       ELSE IF p.pick.acc = ""
       THEN /\ result' =
                   [error |-> "accession empty", pick |-> NoPick, expanded |-> clicked]
            /\ UNCHANGED _PATIENT_DATA
       ELSE /\ result' = [error |-> "", pick |-> p.pick, expanded |-> clicked]
            /\ _PATIENT_DATA' = <<[_PATIENT_DATA[1] EXCEPT !.accession = p.pick.acc]>>

\* lines 446-474: acc_js
EaCall ==
    /\ pc = "ea_call"
    /\ _PATIENT_DATA # <<>>
    /\ LET rows == screen.rows
       IN  IF rows = <<>>
           THEN /\ vlog' = vlog \o <<"acc_js">>
                /\ EaFinish([found |-> FALSE, pick |-> NoPick], "no rows found", FALSE)
           ELSE IF ~HasExpanded(rows)
           THEN IF rows[1].toggle
                THEN /\ vlog' = vlog \o <<"acc_js", "expand">>
                     /\ pc' = "ea_retry"
                     /\ UNCHANGED <<_PATIENT_DATA, result>>
                ELSE /\ vlog' = vlog \o <<"acc_js">>
                     /\ EaFinish([found |-> FALSE, pick |-> NoPick],
                                 "no expand toggle found", FALSE)
           ELSE /\ vlog' = vlog \o <<"acc_js">>
                /\ EaFinish(PickBestRow(rows), "no expanded rows", FALSE)
    /\ UNCHANGED <<registry, downloads, screen, _DASHBOARD_RECORD_CACHE, _REDCAP_LOCK,
                   exit_cause, loopVars, wkVars, ctx, arg_last, arg_prefetch, all_records,
                   idx, search_result, skip_log, selVars>>

\* lines 476-486: the wait, then retry_js on what the viewer shows by then
EaRetry ==
    /\ pc = "ea_retry"
    /\ vlog' = vlog \o <<"retry_js">>
    /\ EaFinish(PickBestRow(screen.after_expand), "no expanded row after expand", TRUE)
    /\ UNCHANGED <<registry, downloads, screen, _DASHBOARD_RECORD_CACHE, _REDCAP_LOCK,
                   exit_cause, loopVars, wkVars, ctx, arg_last, arg_prefetch, all_records,
                   idx, search_result, skip_log, selVars>>

NextStudy ==
    \/ EaCall
    \/ EaRetry

SpecStudy == InitStudy /\ [][NextStudy]_vars

\* the step-by-step call returns what extract_accession_js computes
StudyStepsAgree == pc = "ea_ret" => result = extract_accession_js(screen)

(***************************************************************************)
(* Properties                                                              *)
(***************************************************************************)
InLog(op) == \E i \in DOMAIN vlog : vlog[i] = op

\* C1: a prefetch result with status ready and after_record_id = A is
\* consumed by next_patient_from_prefetch (its patient_data installed as the
\* active context, without a registry fetch) only when the last-processed
\* identifier passed to the advance is A.
C1_PrefetchConsumedOnlyForItsId ==
    (pc = "np_ret" /\ result.prefetched) =>
        /\ arg_prefetch.status = "ready"
        /\ arg_prefetch.after_record_id = arg_last
        /\ _PATIENT_DATA # <<>>
        /\ _PATIENT_DATA[1].record_id = arg_prefetch.record_id
        /\ ~_DASHBOARD_RECORD_CACHE.loaded

C1_Consumed ==
    /\ pc = "np_ret"
    /\ result.prefetched
    /\ result.error = ""
    /\ arg_last = RecId(1)
    /\ arg_prefetch.after_record_id = RecId(1)

AllowedSites == {"1", "2", "3", "11", "12", "13"}

OutsideAllowSet(id) ==
    /\ registry[id].access_site_1 \notin AllowedSites
    /\ registry[id].access_site_2 \notin AllowedSites

\* C2: a record whose access_site_1 and access_site_2 are both outside
\* {1,2,3,11,12,13} is never returned as the next record, neither by
\* next_patient nor by preload_next_patient / next_patient_from_prefetch,
\* and never becomes the record presented for classification.
C2_IneligibleNeverReturned ==
    /\ (pc = "np_ret" /\ result.record_id # NoId) => ~OutsideAllowSet(result.record_id)
    /\ current_id # NoId => ~OutsideAllowSet(current_id)
    /\ (prefetch_thread.status = "done" /\ prefetch_thread.result.status = "ready")
           => ~OutsideAllowSet(prefetch_thread.result.record_id)

C2_SkippedThenReturned ==
    /\ pc = "np_ret"
    /\ result.prefetched
    /\ result.error = ""
    /\ result.record_id = RecId(3)
    /\ OutsideAllowSet(RecId(2))

\* C3: when the input fails shorthand validation, process_selection returns
\* invalid_input with no registry write and no viewer action, and the loop
\* stays on the same record: current record, last-processed identifier,
\* patient context and the running prefetch are unchanged.
C3_InvalidInputNoEffect ==
    [][(/\ pc = "got_line"
        /\ line \in {LineZeroCombined, LineSeriesZero}
        /\ pc' # pc)
       => /\ pc' = "prompt"
          /\ save_result'.status = "invalid_input"
          /\ post' = post
          /\ vlog' = vlog
          /\ current_id' = current_id
          /\ last_id' = last_id
          /\ _PATIENT_DATA' = _PATIENT_DATA
          /\ prefetch_thread' = prefetch_thread
          /\ orphans' = orphans
          /\ _REDCAP_LOCK' = _REDCAP_LOCK]_vars

C3_InvalidWhilePrefetching ==
    /\ pc = "prompt"
    /\ save_result.status = "invalid_input"
    /\ prefetch_thread.status = "run"

\* C4: at most one thread executes a script on the registry channel at any
\* time, and a thread that executes one holds the registry lock.
C4_RegistryScriptsSerialized ==
    /\ RegistryExecutions <= 1
    /\ RegistryExecutions = 1 => _REDCAP_LOCK

C4_MainWaitsForWorker ==
    /\ WorkerExecuting(prefetch_thread)
    /\ pc = "ps_save"

\* C5: at every moment of a run of the loop at most one prefetch worker is
\* alive.
C5_AtMostOneWorkerAlive ==
    AliveWorkers <= 1

\* C6: the completion status the save step submits is complete (2) exactly
\* when the classification is "no images" and unverified (1) otherwise,
\* whatever measurements the form holds.
C6_CompleteExactlyWhenNoImages ==
    (pc = "ps_ret" /\ post # NoPost) =>
        post.form_complete = (IF post.no_images THEN 2 ELSE 1)

StudyNotFound == {"no rows found", "no expand toggle found", "accession empty"}

\* C7: when no study is found for the next record, the loop does not
\* terminate; it ends only on quit, end of input or interrupt.
C7_StudyNotFoundKeepsLoop ==
    (pc = "exited" /\ result.error \in StudyNotFound) => exit_cause \in {"quit", "eof"}

FieldError(rec) ==
    \/ rec.mrn = ""
    \/ rec.proc_date = NoDate
    \/ ~_convert_date_for_nilread(rec.proc_date).ok

\* C8: when the registry fetch of a candidate record on the synchronous path
\* fails with a field error, next_patient still returns a result: no
\* exception is raised and the process is not terminated.
C8_FieldErrorStillReturns ==
    (/\ ctx \in {"first", "redo", "advance"}
     /\ all_records # <<>>
     /\ idx < Len(all_records)
     /\ FieldError(registry[all_records[idx + 1]]))
    => pc # "crashed"

\* C9: when setting the identifier or the date field returns anything but
\* success, the caller does not go on to study selection or to opening a
\* study, and its result carries the reason.
C9_FieldSetFailureStops ==
    (pc = "np_ret" /\ search_result # "") =>
        /\ result.error = search_result
        /\ ~InLog("extract_accession")
        /\ ~InLog("open_study")

\* C10: the save step reports saved only when the registry POST returned 200
\* or 302; any other status and any failure of the form read yields a
\* non-saved outcome.
C10_SavedOnlyOnPostSuccess ==
    (pc = "ps_ret" /\ save_result.status = "saved") =>
        /\ post # NoPost
        /\ post.http_status \in {200, 302}

\* the accession values a successful re-extraction stores
ExtractedAccessions == {a.pick.acc : a \in {x \in LoopAccResults : x.error = ""}}

\* C11: when the accession re-extraction of the save step fails, the save is
\* still submitted and the accession it submits is the empty string: the
\* submitted accession is a value the re-extraction produced or "", never a
\* null placeholder or a value kept from before.
C11_FailedReextractionSubmitsEmpty ==
    (pc = "ps_ret" /\ post # NoPost) => post.accession \in ExtractedAccessions \cup {""}

\* C12: when retrieving the record list from the registry fails (an
\* unparsable payload), next_patient returns an error result instead of
\* raising: the process does not end on it.
C12_RecordListFailureReturnsError ==
    pc = "crashed" => exit_cause # "JSONDecodeError: dashboard records"

\* the prefetch handed to the advance is ready and was made for record R,
\* the last-processed identifier
FreshPrefetch ==
    /\ arg_prefetch.status = "ready"
    /\ arg_prefetch.after_record_id = last_id

Position(id) ==
    IF \E i \in 1..Len(Dashboard) : Dashboard[i] = id
    THEN CHOOSE i \in 1..Len(Dashboard) : Dashboard[i] = id
    ELSE 0

\* C14: traversal starts at the element following the last-processed
\* identifier when it is present and not last, at position 0 when it is
\* absent, and is exhausted (no more records) when it is the last element,
\* on the synchronous path and in the prefetch worker; exhaustion on the
\* first load or on an advance ends the loop.
C14_TraversalStart ==
    [][/\ (pc = "np_read_x" /\ pc' \notin {"np_read_x", "crashed"}) =>
            IF Position(arg_last) = Len(Dashboard)
            THEN pc' = "np_ret" /\ result'.error = "no more records"
            ELSE pc' = "np_fetch" /\ idx' = Position(arg_last)
       /\ (/\ prefetch_thread.status = "run"
           /\ prefetch_thread.pc = "w_start"
           /\ prefetch_thread'.status # "none"
           /\ prefetch_thread'.pc # "w_start") =>
            IF Position(prefetch_thread.after) = Len(Dashboard)
            THEN /\ prefetch_thread'.status = "done"
                 /\ prefetch_thread'.result.status = "no_more_records"
            ELSE /\ prefetch_thread'.pc = "w_fetch"
                 /\ prefetch_thread'.idx = Position(prefetch_thread.after)
       /\ (/\ pc = "np_ret"
           /\ result.error = "no more records"
           /\ ctx # "redo"
           /\ pc' # pc) => pc' = "exited"]_vars

C14_AdvanceFromMiddle ==
    /\ pc = "np_fetch"
    /\ ctx = "advance"
    /\ arg_last = RecId(1)
    /\ idx = 1
    /\ prefetch_thread.status = "run"
    /\ prefetch_thread.pc = "w_fetch"

SkipLines(id) == Cardinality({i \in DOMAIN skip_log : skip_log[i] = id})

\* C15: every ineligible record that is passed over on the way to the
\* returned record produces exactly one "Skipping ..." line naming it, on the
\* synchronous path and on the prefetch path whose result is consumed.
C15_EverySkipLogged ==
    (pc = "np_ret" /\ result.error = "")
        => \A i \in (Position(last_id) + 1)..(result.position - 1) :
               OutsideAllowSet(RecId(i)) => SkipLines(RecId(i)) = 1

HoldsIdentifyingValues(p) ==
    p.mrn # "" \/ p.proc_date_redcap # <<>> \/ p.proc_date_nilread # <<>>

\* C16: two runs that differ only in the values (not the lengths) of MRN,
\* procedure date and accession produce the same printed output and the same
\* returned summaries, and the identifying values are held only in the active
\* patient context.  The last part is a property of single states: no MRN or
\* date is held by the prefetch state or by a prefetch result handed to the
\* advance; it is the part stated here.
C16_IdentifyingValuesOnlyInContext ==
    /\ ~HoldsIdentifyingValues(prefetch_thread.result.patient_data)
    /\ ~HoldsIdentifyingValues(arg_prefetch.patient_data)

\* C17: the patient store never holds more than one context, and a load
\* replaces the active context in one step: once a context is held, no step
\* leaves the store empty.
C17_StoreReplacedAtomically ==
    [][/\ Len(_PATIENT_DATA') <= 1
       /\ _PATIENT_DATA # <<>> => _PATIENT_DATA' # <<>>]_vars

Typed(inp) == inp.text = line

NoneEntries == [EmptyEntries EXCEPT ![0] = <<0, 0>>]

\* C18: the selection "0" alone is the classification none: every flag is
\* submitted as 0 and no series/image pair is sent; a comma-separated
\* selection holding a "0" segment beside another segment is rejected.
C18_ZeroAloneOrRejected ==
    [][\A inp \in SelectionInputs : Typed(inp) =>
        /\ (pc = "got_line" /\ pc' # pc /\ Len(inp.segs) = 1 /\ inp.segs[1].zero)
               => pc' = "ps_save" /\ entries' = NoneEntries
        /\ (pc = "got_line" /\ pc' # pc /\ Len(inp.segs) > 1
                /\ \E i \in DOMAIN inp.segs : inp.segs[i].zero)
               => /\ pc' = "prompt"
                  /\ save_result'.status = "invalid_input"
                  /\ post' = post
        /\ (pc' = "ps_ret" /\ post' # NoPost /\ entries = NoneEntries)
               => /\ post'.needle = 0 /\ post'.angio = 0 /\ post'.other = 0
                  /\ post'.series_image = EmptyEntries]_vars

C18_NoneSubmitted ==
    /\ pc = "ps_ret"
    /\ line = SegZero.text
    /\ post # NoPost
    /\ post.no_images

\* C19: a selection other than "0" is accepted only if every segment is
\* three whitespace-separated tokens with type in {1, 2, 3} and series and
\* image integers >= 1; one malformed segment rejects the whole selection
\* and nothing is applied.
C19_AcceptedOnlyWellFormed ==
    [][\A inp \in SelectionInputs :
        (/\ Typed(inp)
         /\ pc = "got_line"
         /\ pc' # pc
         /\ ~(Len(inp.segs) = 1 /\ inp.segs[1].zero))
        => /\ pc' = "ps_save" => \A i \in DOMAIN inp.segs : inp.segs[i].ok
           /\ (\E i \in DOMAIN inp.segs : ~inp.segs[i].ok)
                  => /\ pc' = "prompt"
                     /\ save_result'.status = "invalid_input"
                     /\ entries' = entries
                     /\ post' = post
                     /\ vlog' = vlog
                     /\ _PATIENT_DATA' = _PATIENT_DATA]_vars

C19_TwoSegmentsAccepted ==
    /\ pc = "ps_save"
    /\ line = SegOtherSigned.text \o <<",">> \o SegNeedle.text
    /\ entries[3] = <<2, 9>>
    /\ entries[1] = <<1, 5>>

\* the series/image pair of the last segment of type t, NoEntry without one
LastOfType(segs, t) ==
    LET at == {i \in DOMAIN segs : segs[i].ok /\ segs[i].t = t}
    IN  IF at = {} THEN NoEntry
        ELSE LET m == CHOOSE i \in at : \A j \in at : j <= i
             IN  <<segs[m].series, segs[m].img>>

FlagOf(p, t) == IF t = 1 THEN p.needle ELSE IF t = 2 THEN p.angio ELSE p.other

\* C20: for an accepted selection the submitted form sets the flag of a type
\* to 1 exactly when the type is present and carries its series/image pair
\* exactly when the type is present, with the values of the last segment of
\* that type.
C20_SubmittedMatchesSelection ==
    (pc = "ps_ret" /\ post # NoPost)
        => \A inp \in SelectionInputs : Typed(inp) =>
               \A t \in 1..3 :
                   /\ FlagOf(post, t) = 1 <=> LastOfType(inp.segs, t) # NoEntry
                   /\ FlagOf(post, t) = 0 <=> LastOfType(inp.segs, t) = NoEntry
                   /\ post.series_image[t] = LastOfType(inp.segs, t)

C20_LaterSegmentWins ==
    /\ pc = "ps_ret"
    /\ line = SegNeedle.text \o <<",">> \o SegNeedleAgain.text
    /\ post # NoPost
    /\ post.needle = 1
    /\ post.series_image[1] = <<2, 7>>

\* C21: when a line has at least two whitespace-separated tokens and its
\* last token, commas removed, is not purely numeric, the last token is the
\* annotation and the shorthand is the tokens before it; in every other case
\* the annotation is empty and the shorthand is the whole trimmed line.
C21_AnnotationIsLastNonNumericToken ==
    pc = "parsed" =>
        \A inp \in TokenInputs : inp.text = line =>
            LET n == Len(inp.toks)
            IN  IF n >= 2 /\ ~inp.toks[n].numeric
                THEN /\ comments = inp.toks[n].text
                     /\ shorthand = JoinWith(SubSeq(inp.toks, 1, n - 1), <<" ">>)
                ELSE /\ comments = <<>>
                     /\ shorthand = inp.trimmed

C21_AnnotationTaken ==
    /\ pc = "parsed"
    /\ line = <<" ", "2", " ", " ", "5", ",", " ", " ", "D", "S", "A", " ">>
    /\ comments = <<"D", "S", "A">>
    /\ shorthand = <<"2", " ", "5", ",">>

\* C22: redo reprocesses the current record: it performs no registry write,
\* does not change the last-processed identifier, and ends with the engine
\* awaiting classification for the record that was current before redo, the
\* active patient context being that record.
C22_RedoKeepsRecord ==
    [][(ctx = "redo" \/ ctx' = "redo")
       => /\ last_id' = last_id
          /\ post' = post
          /\ pc' # "crashed"
          /\ (pc = "np_ret" /\ pc' # pc)
                 => /\ pc' = "prompt"
                    /\ current_id' = current_id
                    /\ _PATIENT_DATA' # <<>>
                    /\ _PATIENT_DATA'[1].record_id = current_id]_vars

\* C23: for a valid selection the export in the viewer and the rename of the
\* download folder to the record identifier are performed exactly when the
\* classification holds the angiogram type (2); when no export folder is
\* there or the target name exists, ~/Downloads is left as it is.
C23_ExportAndRenameIffAngio ==
    [][/\ (pc = "got_line" /\ pc' = "ps_save")
             => (entries'[2] # NoEntry
                    <=> \E i \in DOMAIN vlog' : vlog'[i] = "export_and_download")
       /\ (pc = "ps_save_x" /\ pc' = "ps_ret")
             => LET rid == _PATIENT_DATA[1].record_id
                    renames == /\ entries[2] # NoEntry
                               /\ downloads.nil # <<>>
                               /\ ~TargetExists(downloads, rid)
                IN  IF renames
                    THEN /\ TargetExists(downloads', rid)
                         /\ Len(downloads'.nil) = Len(downloads.nil) - 1
                    ELSE downloads' = downloads]_vars

\* C24: in the save cycle the form read writes nothing, and when the read
\* fails (status other than 200, or no CSRF token in the page) no POST is
\* submitted and the failure is returned as the result of the record: the
\* process does not stop and the result does not report the record as saved.
C24_ReadFailureNoWrite ==
    (pc \in {"ps_ret", "crashed"} /\ save_result.record_id # NoId /\ post = NoPost)
        => /\ pc = "ps_ret"
           /\ save_result.status \notin {"saved", ""}


(***************************************************************************)
(* Study selection (SpecStudy)                                             *)
(***************************************************************************)
\* the rows the selection ran on: those shown after the expand click when
\* there was one, those shown at the call otherwise
Examined == IF InLog("retry_js") THEN screen.after_expand ELSE screen.rows

\* the expanded rows of the examined grid, by position
ExpandedAt == {i \in 1..Len(Examined) : Examined[i].cells >= 12}

\* the label written with the kind of the row: its description begins with
\* a preferred prefix
LabelledPreferred(row) == \E k \in StudyKinds : k.desc = row.desc /\ k.pref

\* the selection returned the row at position i
Returned(i) ==
    /\ result.error = ""
    /\ _PATIENT_DATA[1].accession = AccAt(i)
    /\ result.pick.images = Examined[i].images
    /\ result.pick.desc = Examined[i].desc

\* C25: the row returned by study selection, by either rule, carries more
\* than one image, and when every expanded row carries at most one image no
\* row is selected.
C25_ReturnedRowHasImages ==
    pc = "ea_ret" =>
        /\ \A i \in ExpandedAt : Returned(i) => Examined[i].images > 1
        /\ (\A i \in ExpandedAt : Examined[i].images <= 1) => result.error # ""


\* the expanded rows that qualify as preferred
Qualifying ==
    {i \in ExpandedAt : Examined[i].images > 1 /\ LabelledPreferred(Examined[i])}

\* the row of S with the highest image count, the first one on equal counts
FirstHighest(S) ==
    CHOOSE i \in S :
        \A j \in S : \/ Examined[j].images < Examined[i].images
                     \/ Examined[j].images = Examined[i].images /\ j >= i

\* C26: whenever some row with more than one image has a description that
\* begins with a preferred prefix, the selection returns the preferred row
\* with the highest image count, the first one on equal counts, and never a
\* row that is not preferred.
C26_PreferredRowWins ==
    (pc = "ea_ret" /\ Qualifying # {}) =>
        /\ Returned(FirstHighest(Qualifying))
        /\ result.pick.match # MaxImagesMatch

Count(op, log) == Cardinality({i \in DOMAIN log : log[i] = op})

\* C28: in one call the expand click happens at most once and only when no
\* row shows the detail columns, the selection is run once more after it and
\* never otherwise, the call ends with that second run, and when the second
\* run finds no expanded row the call ends with an error and the stored
\* accession is left as it was.
C28_ExpandOnceRetryOnce ==
    [][/\ pc # "ea_ret"
       /\ Count("expand", vlog') <= 1
       /\ (Count("expand", vlog') > Count("expand", vlog)) =>
              /\ \A i \in 1..Len(screen.rows) : screen.rows[i].cells < 12
              /\ pc' = "ea_retry"
       /\ Count("retry_js", vlog') <= Count("expand", vlog')
       /\ pc' = "ea_ret" => Count("retry_js", vlog') = Count("expand", vlog')
       /\ pc = "ea_retry" =>
              /\ pc' = "ea_ret"
              /\ vlog' = vlog \o <<"retry_js">>
       /\ (pc = "ea_retry" /\ \A i \in 1..Len(screen.after_expand) :
                                   screen.after_expand[i].cells < 12) =>
              /\ result'.error # ""
              /\ _PATIENT_DATA' = _PATIENT_DATA]_vars

\* the row was expanded, the second run found no expanded row, and the
\* accession stored before the call is still there
C28_RetryFailed ==
    /\ pc = "ea_ret"
    /\ vlog = <<"acc_js", "expand", "retry_js">>
    /\ result.error = "no expanded row after expand"
    /\ screen.after_expand # <<>>
    /\ _PATIENT_DATA[1].accession = "ACC0002"


(***************************************************************************)
(* The order of the steps of process_selection                            *)
(***************************************************************************)
\* every occurrence of b in log comes after some occurrence of a
Precedes(a, b, log) ==
    \A k \in DOMAIN log : log[k] = b => \E i \in 1..(k - 1) : log[i] = a

\* C29 as stated: for a valid selection the export (only when the angiogram
\* type is selected) comes first, then the registry save, then the return to
\* the list: while the save has not returned, no return to the list was
\* issued.
C29_ReturnNotBeforeSave ==
    pc \in {"ps_save", "ps_save_x"} =>
        /\ (entries[2] # NoEntry <=> InLog("export_and_download"))
        /\ ~InLog("return_to_directory")

\* C29 amended: for a valid selection the export (only when the angiogram
\* type is selected) comes first, then the return to the list, then the
\* second extraction of the accession, and the registry save is started
\* only after them.
C29_ExportReturnThenSave ==
    pc \in {"ps_save", "ps_save_x"} =>
        /\ (entries[2] # NoEntry <=> InLog("export_and_download"))
        /\ InLog("return_to_directory")
        /\ InLog("extract_accession")
        /\ \A i, k \in DOMAIN vlog :
               (vlog[i] = "export_and_download" /\ vlog[k] = "return_to_directory") => i < k
        /\ Precedes("return_to_directory", "extract_accession", vlog)
        /\ post = NoPost

\* an angiogram selection whose save is about to start
C29_AngioAwaitingSave ==
    /\ pc = "ps_save"
    /\ entries[2] # NoEntry
    /\ vlog = <<"export_and_download", "return_to_directory", "extract_accession">>
    /\ post = NoPost


\* C30: for each record the viewer operations occur in the order search,
\* study selection, export, return to the list: when next_patient returns,
\* both search stages had returned before its study selection ran; an export
\* is only triggered by the handling of a selection, which follows that
\* return; and the export comes before the return to the list.
C30_ViewerOrder ==
    /\ pc = "np_ret" =>
           /\ Precedes("set_mrn", "extract_accession", vlog)
           /\ Precedes("set_date", "extract_accession", vlog)
    /\ InLog("export_and_download") =>
           /\ pc \in {"ps_save", "ps_save_x", "ps_ret"}
           /\ \A i, k \in DOMAIN vlog :
                  (vlog[i] = "export_and_download" /\ vlog[k] = "return_to_directory")
                      => i < k


(***************************************************************************)
(* The prefetch task                                                       *)
(***************************************************************************)
\* the record is written in the registry as an eligible one: its fields can
\* be fetched and one of its access sites is femoral
EligibleRecord(id) == \E k \in 1..3 : registry[id] = FemoralRows[k]

\* the positions of the record list after the identifier R (all of them when
\* R is not listed)
PositionsAfter(R) == (Position(R) + 1)..Len(Dashboard)

\* C31: every result of the prefetch task is tagged ready, no_more_records
\* or error and carries the identifier R the task was started after; a ready
\* result names the first eligible record after R in the record list, and
\* no_more_records is produced only when no record after R is eligible.
C31_PrefetchResultIsNextEligible ==
    [][(prefetch_thread.status = "run" /\ prefetch_thread'.status = "done") =>
          LET R == prefetch_thread.after
              r == prefetch_thread'.result
          IN  /\ r.status \in {"ready", "no_more_records", "error"}
              /\ r.after_record_id = R
              /\ r.status = "ready" =>
                     \E i \in PositionsAfter(R) :
                         /\ r.record_id = Dashboard[i]
                         /\ r.patient_data.record_id = Dashboard[i]
                         /\ r.position = i
                         /\ EligibleRecord(Dashboard[i])
                         /\ \A j \in PositionsAfter(R) : j < i => ~EligibleRecord(Dashboard[j])
              /\ r.status = "no_more_records" =>
                     \A j \in PositionsAfter(R) : ~EligibleRecord(Dashboard[j])]_vars

\* the task started after the first record passed over the second one, which
\* is not eligible, and stored the third one
C31_ReadyAfterSkip ==
    /\ prefetch_thread.status = "done"
    /\ prefetch_thread.result.status = "ready"
    /\ prefetch_thread.result.after_record_id = RecId(1)
    /\ prefetch_thread.result.record_id = RecId(3)
    /\ ~EligibleRecord(RecId(2))


\* a step of a prefetch thread: the main thread stays where it is and a
\* thread, held by the loop or dropped, moves
PrefetchThreadStep == pc' = pc /\ wkVars' # wkVars

\* C32: a step of a prefetch thread executes nothing on the viewer channel
\* and leaves the active patient context alone: it changes nothing but the
\* thread's own state and result slot (and the registry lock it holds while
\* its read-only script runs), and a ready result holds what the registry
\* holds for the record, whatever the active patient context is.
C32_PrefetchTouchesOnlyItsSlot ==
    [][PrefetchThreadStep =>
          /\ UNCHANGED <<vlog, screen, downloads, _PATIENT_DATA, _DASHBOARD_RECORD_CACHE, registry>>
          /\ UNCHANGED <<exit_cause, loopVars, callVars, selVars>>
          /\ (prefetch_thread'.status = "done" /\ prefetch_thread.status = "run"
                  /\ prefetch_thread'.result.status = "ready") =>
                 LET r == prefetch_thread'.result
                 IN  r.patient_data = FetchRecord(r.record_id, registry[r.record_id])]_vars

\* a thread started after the presented record has stored the next record
\* while the presented record is the active patient context
C32_PrefetchedBesideContext ==
    /\ pc = "prompt"
    /\ _PATIENT_DATA # <<>>
    /\ prefetch_thread.status = "done"
    /\ prefetch_thread.result.status = "ready"
    /\ prefetch_thread.result.after_record_id = current_id
    /\ _PATIENT_DATA[1].record_id = current_id
    /\ prefetch_thread.result.record_id # current_id


(***************************************************************************)
(* The date adapter, applied by load_patient to dates written by hand      *)
(***************************************************************************)
\* the largest number of dash-separated segments of a procedure date
MaxDateSegments == 4

MonthTokens ==
    { <<"0", "1">>, <<"0", "2">>, <<"1", "2">>, <<"1", "3">>, <<"0", "0">>, <<"j", "a", "n">> }

DayTokens ==
    { <<"0", "1">>, <<"1", "5">>, <<"2", "9">>, <<"3", "0">>, <<"3", "1">>, <<"3", "2">>,
      <<"0", "0">>, <<"1", "x">> }

YearTokens == { <<"2", "0", "2", "4">>, <<"2", "0", "2", "3">>, <<"2", "0", "x", "4">> }

ExtraTokens == { <<"9", "9">>, <<"0", "1">> }

\* the sequences of extra segments of at most n segments
RECURSIVE ExtraSegments(_)
ExtraSegments(n) ==
    IF n <= 0 THEN {<<>>}
    ELSE {<<>>} \cup {<<e>> \o t : e \in ExtraTokens, t \in ExtraSegments(n - 1)}

\* the dates of the model as sequences of segments: one to max segments
DateCases(max) ==
    LET full == {<<m, d, y>> : m \in MonthTokens, d \in DayTokens, y \in YearTokens}
    IN  {SubSeq(c, 1, n) : c \in full, n \in 1..2}
        \cup {c \o e : c \in full, e \in ExtraSegments(max - 3)}

RECURSIVE DateText(_)
\* the registry text of a date: its segments joined by dashes
DateText(c) ==
    IF Len(c) = 1 THEN c[1] ELSE c[1] \o <<"-">> \o DateText(Tail(c))

\* the calendar, written out for the tokens above: 2024 is a leap year
ConformingDate(c) ==
    /\ Len(c) = 3
    /\ c[1] \in { <<"0", "1">>, <<"0", "2">>, <<"1", "2">> }
    /\ c[3] \in { <<"2", "0", "2", "4">>, <<"2", "0", "2", "3">> }
    /\ \/ c[2] \in { <<"0", "1">>, <<"1", "5">> }
       \/ c[2] = <<"2", "9">> /\ (c[1] # <<"0", "2">> \/ c[3] = <<"2", "0", "2", "4">>)
       \/ c[2] \in { <<"3", "0">>, <<"3", "1">> } /\ c[1] # <<"0", "2">>

\* the viewer text of a conforming date, written out
ExpectedViewerDate(c) ==
    (IF c[1] = <<"0", "1">> THEN <<"j", "a", "n">>
     ELSE IF c[1] = <<"0", "2">> THEN <<"f", "e", "b">>
     ELSE <<"d", "e", "c">>)
    \o <<" ">> \o c[2] \o <<",", " ">> \o c[3]

\* the registry whose first record holds the date c
DateRegistry(c) ==
    [id \in RecIds |-> [FemoralRows[1] EXCEPT !.proc_date = DateText(c)]]

InitDate ==
    /\ \E c \in DateCases(MaxDateSegments) : registry = DateRegistry(c)
    /\ downloads = EmptyDownloads
    /\ screen = NoScreen
    /\ _PATIENT_DATA = <<>>
    /\ _DASHBOARD_RECORD_CACHE = NoCache
    /\ _REDCAP_LOCK = FALSE
    /\ exit_cause = ""
    /\ line = <<>>
    /\ all_records = <<>>
    /\ idx = 0
    /\ result = NoResult
    /\ search_result = ""
    /\ vlog = <<>>
    /\ skip_log = <<>>
    /\ entries = EmptyEntries
    /\ comments = <<>>
    /\ shorthand = <<>>
    /\ save_result = NoSaveResult
    /\ post = NoPost
    /\ prefetch_thread = NoWorker
    /\ orphans = EmptyBag
    /\ pc = "start"
    /\ ctx = ""
    /\ last_id = NoId
    /\ current_id = NoId
    /\ arg_last = NoId
    /\ arg_prefetch = NoPrefetch

\* load_patient(record_id), lines 211-230, for the first record
LoadPatient ==
    /\ pc = "start"
    /\ LET patient == _fetch_patient_data(RecId(1), registry[RecId(1)])
       IN  /\ result' = [NoResult EXCEPT !.record_id = patient.record_id,
                                         !.error = patient.error]
           /\ _PATIENT_DATA' = IF patient.error # "" THEN <<>> ELSE <<patient>>
    /\ pc' = "np_ret"
    /\ UNCHANGED <<registry, screen, downloads, _DASHBOARD_RECORD_CACHE, _REDCAP_LOCK, exit_cause,
                   loopVars, wkVars, ctx, arg_last, arg_prefetch, all_records, idx,
                   search_result, vlog, skip_log, selVars>>

SpecDate == InitDate /\ [][LoadPatient]_vars

\* C33: a procedure date that is a valid zero-padded MM-DD-YYYY date is
\* converted to the lowercase "mon dd, yyyy" text, and every other date
\* (month or day out of range, a segment that is not a number, fewer or
\* more than three segments) fails with the malformed-date error.
C33_DateAdapter ==
    \A c \in DateCases(MaxDateSegments) :
        (pc = "np_ret" /\ registry[RecId(1)].proc_date = DateText(c)) =>
            IF ConformingDate(c)
            THEN /\ result.error = ""
                 /\ _PATIENT_DATA # <<>>
                 /\ _PATIENT_DATA[1].proc_date_nilread = ExpectedViewerDate(c)
            ELSE result.error = "invalid date format"


(***************************************************************************)
(* The loop after the save step                                            *)
(***************************************************************************)
\* C34: the loop advances from the record R only after a registry write for
\* R was submitted and reported successful: when process_selection returned
\* a failed result the loop neither sets the last-processed identifier to R
\* nor asks for the next record.
C34_AdvanceOnlyAfterSuccessfulSave ==
    [][(pc = "ps_ret" /\ (pc' = "npp_call" \/ last_id' # last_id)) =>
          /\ save_result.status = "saved"
          /\ save_result.record_id = current_id
          /\ post # NoPost
          /\ post.rid = current_id
          /\ post.http_status \in {200, 302}]_vars


(***************************************************************************)
(* The loop on a registry whose record list other users change             *)
(***************************************************************************)
RECURSIVE Without(_, _)
\* the list s without its i-th element
Without(s, i) ==
    IF i = 1 THEN Tail(s) ELSE <<Head(s)>> \o Without(Tail(s), i - 1)

\* what the dashboard lists at a reload: every record, or every record but
\* the first one, which another user has removed in the meantime
ChangedDashboards == {Dashboard, Without(Dashboard, 1)}

\* the table read of a registry whose record list changes between reloads
NpReadChanged == \E records \in ChangedDashboards : NpReadList(records)

NextChanging ==
    \/ Start
    \/ NpNavBegin
    \/ NpNavEnd
    \/ NpReadBegin
    \/ NpReadChanged
    \/ NpReadFail
    \/ NpFetchBegin
    \/ NpFetchEnd
    \/ AdvancePrefetched
    \/ AdvanceSync
    \/ NextError
    \/ NextReady
    \/ ReadLine
    \/ ReadEOF
    \/ LineEmpty
    \/ LineQuit
    \/ LineRedo
    \/ SelectionInvalid
    \/ SelectionValid
    \/ PsSaveBegin
    \/ PsSaveEnd
    \/ LoopAdvance
    \/ WkStart
    \/ WkFetchBegin
    \/ WkFetchEnd
    \/ OrphanStart
    \/ OrphanFetchBegin
    \/ OrphanFetchEnd

\* every record of the registry is eligible
InitChanging == Init /\ registry = SelectionRegistry

SpecChanging == InitChanging /\ [][NextChanging]_vars

\* C35: whenever the loop waits for input, the record in the active patient
\* context is the loop's current record, after any sequence of saves,
\* invalid inputs and redo commands, a redo that ended in an error included.
C35_ContextIsCurrentRecord ==
    pc = "prompt" =>
        /\ _PATIENT_DATA # <<>>
        /\ _PATIENT_DATA[1].record_id = current_id


(***************************************************************************)
(* The two ways of advancing                                               *)
(***************************************************************************)
\* C36: on the same record list and registry the synchronous path advances
\* to the record the prefetch path advances to: once the advance after R
\* has ended, by either path, the record it presents is the one a prefetch
\* started after R names, and it reports no more records when that prefetch
\* finds none; a record in between whose fetch fails changes nothing.
C36_PathsAdvanceToSameRecord ==
    LET p == preload_next_patient(registry, last_id)
    IN  (pc = "np_ret" \/ (pc = "crashed" /\ exit_cause = "RuntimeError: No patient loaded")) =>
            /\ pc = "np_ret"
            /\ IF p.status = "ready"
               THEN result.record_id = p.record_id
               ELSE result.error = "no more records"


(***************************************************************************)
(* open_study after extract_accession (next_patient lines 1393-1402)       *)
(***************************************************************************)
\* no row: prefRow or bestRow is null
NoTarget == [row |-> 0, images |-> 0]

\* the loop of find_js over rows i..Len(rows), lines 525-543
RECURSIVE FindLoop(_, _, _, _)
FindLoop(rows, i, pref, best) ==
    IF i > Len(rows) THEN [pref |-> pref, best |-> best]
    ELSE LET r == rows[i]
             pref2 == IF r.cells >= 12 /\ IsPreferredRow(r) /\ r.images > pref.images
                      THEN [row |-> i, images |-> r.images]
                      ELSE pref
             best2 == IF r.cells >= 12 /\ (r.images > best.images \/ best.row = 0)
                      THEN [row |-> i, images |-> r.images]
                      ELSE best
         IN  FindLoop(rows, i + 1, pref2, best2)

\* find_js, lines 520-567: the row that is double-clicked, 0 when the
\* script returns "no expanded row found"
open_study(rows) ==
    LET r == FindLoop(rows, 1, NoTarget, [NoTarget EXCEPT !.images = -1])
    IN  IF r.pref.row # 0 THEN r.pref.row ELSE r.best.row

\* the rows the viewer shows once extract_accession has returned
RowsShown == IF result.expanded THEN screen.after_expand ELSE screen.rows

\* next_patient line 1400: open_study() on the rows extract_accession read;
\* the viewer opens the study of the row that was double-clicked
OpenStudy ==
    /\ pc = "ea_ret"
    /\ result.error = ""
    /\ vlog' = Append(vlog, "open_study")
    /\ screen' = [rows |-> screen.rows, after_expand |-> screen.after_expand,
                  opened |-> open_study(RowsShown)]
    /\ pc' = "np_ret"
    /\ UNCHANGED <<registry, downloads, globVars, _REDCAP_LOCK, exit_cause, loopVars, wkVars,
                   ctx, arg_last, arg_prefetch, all_records, idx, result, search_result,
                   skip_log, selVars>>

NextOpen ==
    \/ EaCall
    \/ EaRetry
    \/ OpenStudy

SpecOpen == InitStudy /\ [][NextOpen]_vars

\* C37: the row open_study opens is the row whose accession
\* extract_accession stored in the patient context: the two routines choose
\* the same row, also when the preferred row has an empty accession cell
\* or an image count of 0 or 1.
C37_OpenedRowIsExtractedRow ==
    (pc = "np_ret" /\ vlog # <<>> /\ vlog[Len(vlog)] = "open_study") =>
        /\ screen.opened = result.pick.row
        /\ RowsShown[screen.opened].acc = _PATIENT_DATA[1].accession


(***************************************************************************)
(* The reload of the record list and the prefetch threads                  *)
(***************************************************************************)
\* the main thread is inside _get_dashboard_records(force_reload=True):
\* navigating, waiting for the page, reading the table
Reloading == pc \in {"np_nav_x", "np_read", "np_read_x"}

\* C38: a reload of the record list by the main thread (navigate, wait,
\* read the table, store the cache) is atomic with respect to the prefetch
\* threads: while it lasts no prefetch thread starts or ends a registry
\* script and none reads the cache.
C38_ReloadIsAtomic ==
    [][(Reloading /\ pc' = pc) => UNCHANGED wkVars]_vars


(***************************************************************************)
(* The export of the presented study and the rename of its download        *)
(***************************************************************************)
\* what the viewer page holds when the export starts: the save menu button,
\* the Export item of its menu, the visible export panel, its Download button
ViewerAllPresent ==
    [saveMenuBtn |-> TRUE, exportItem |-> TRUE, panel |-> TRUE, downloadBtn |-> TRUE]

ExportScreens ==
    { ViewerAllPresent,
      [ViewerAllPresent EXCEPT !.saveMenuBtn = FALSE],
      [ViewerAllPresent EXCEPT !.exportItem = FALSE],
      [ViewerAllPresent EXCEPT !.panel = FALSE],
      [ViewerAllPresent EXCEPT !.downloadBtn = FALSE] }

\* export_and_download(), lines 592-671, on a viewer page: its return value
export_and_download(scr) ==
    IF ~scr.saveMenuBtn THEN [status |-> "", error |-> "saveMenuBtn not found"]
    ELSE IF ~scr.exportItem THEN [status |-> "", error |-> "Export menu item not found"]
    ELSE IF ~scr.panel THEN [status |-> "", error |-> "export panel not visible"]
    ELSE IF ~scr.downloadBtn THEN [status |-> "", error |-> "download button not found"]
    ELSE [status |-> "download_started", error |-> ""]

InitExport ==
    /\ InitPresented
    /\ pc = "got_line"
    /\ line \in {inp.text : inp \in SelectionInputs}
    /\ IsSelectionLine(line)
    /\ screen \in ExportScreens
    /\ downloads \in DownloadDirs

\* the browser finishes the download, which only a Download click started
DownloadStarted ==
    /\ export_and_download(screen).error = ""
    /\ DownloadArrives

NextExport ==
    \/ DownloadStarted
    \/ SelectionInvalid
    \/ SelectionValid
    \/ PsSaveBegin
    \/ PsSaveEnd

SpecExport == InitExport /\ [][NextExport]_vars

\* C39: the download folder renamed to the identifier of record R is the
\* one R's own export produced: a folder is renamed in the save step only
\* when export_and_download for R returned without error, and the folder
\* that gets R's name holds R's download.
C39_RenamedFolderIsOwnExport ==
    [][(pc = "ps_save_x" /\ pc' = "ps_ret" /\ downloads' # downloads) =>
          LET rid == _PATIENT_DATA[1].record_id
          IN  /\ export_and_download(screen).error = ""
              /\ \A f \in downloads'.named \ downloads.named :
                     f.name = rid /\ f.content = rid]_vars


(***************************************************************************)
(* The loop run to its end: every eligible record has a study and the      *)
(* coordinator answers every prompt with a valid selection                 *)
(***************************************************************************)
\* the viewer found a study for the record that was searched
StudyFound == pc = "np_ret" => result.error \in {"", "no records", "no more records"}

\* next_patient ends, with a study found
FetchEndWithStudy == NpFetchEnd /\ StudyFound'

\* the advance on a prefetched record ends, with a study found
PrefetchedWithStudy == AdvancePrefetched /\ StudyFound'

\* the coordinator types a valid selection
ReadValidLine == ReadLine /\ IsSelectionLine(line') /\ ParsedLine(line').ok

\* the steps of the main thread, but for the call of process_selection
MainStep ==
    \/ Start
    \/ NpNavBegin
    \/ NpNavEnd
    \/ NpReadBegin
    \/ NpReadEnd
    \/ NpFetchBegin
    \/ FetchEndWithStudy
    \/ PrefetchedWithStudy
    \/ AdvanceSync
    \/ NextError
    \/ NextReady
    \/ ReadValidLine
    \/ PsSaveBegin
    \/ PsSaveEnd
    \/ LoopAdvance

\* the steps of the prefetch threads
ThreadStep ==
    \/ WkStart
    \/ WkFetchBegin
    \/ WkFetchEnd
    \/ OrphanStart
    \/ OrphanFetchBegin
    \/ OrphanFetchEnd

NextLive ==
    \/ MainStep
    \/ SelectionValid
    \/ ThreadStep

\* the interpreter keeps running every thread that can run: the main thread
\* and the prefetch threads each get their turn, and the main thread does
\* not stay for ever before the call of process_selection, which waits for
\* no lock and for no other thread
SpecLive ==
    /\ Init
    /\ [][NextLive]_vars
    /\ WF_vars(MainStep)
    /\ WF_vars(ThreadStep)
    /\ []<>(pc # "got_line")

\* C40: on an unchanging record list in which every eligible record has a
\* study, with a coordinator who keeps entering valid selections, the loop
\* presents the eligible records in list order, each one once and none
\* passed over, whichever way it advances, and in the end reports that no
\* more records remain and stops.
C40_EachRecordOnceThenStop ==
    /\ [][current_id' # current_id =>
             \E i \in PositionsAfter(current_id) :
                 /\ current_id' = Dashboard[i]
                 /\ EligibleRecord(Dashboard[i])
                 /\ \A j \in PositionsAfter(current_id) : j < i => ~EligibleRecord(Dashboard[j])]_vars
    /\ <>(pc = "exited" /\ result.error = "no more records")

=============================================================================
